---- MODULE Spec2Model ----
(***************************************************************************)
(* Model of the live console of serverwave-anywhere:                       *)
(*   src/src/pages/ServerDetail.tsx   the console view (a React component) *)
(*   src/src/stores/serverStore.ts    the server store (zustand)           *)
(*                                                                         *)
(* A text line is a sequence of tokens.  The tokens that matter to the     *)
(* code are "sgr" (one complete ESC[...m sequence), "ctl" (one control     *)
(* character \x00-\x1F outside such a sequence), "URL" (the literal text   *)
(* https://oauth.accounts.hytale.com/oauth2/device/verify?user_code=),     *)
(* and the alphanumeric characters; every other token is ordinary text.    *)
(*                                                                         *)
(* React scheduling: an event handler and the render its state updates     *)
(* cause are one step; the passive effects of that render run in a later   *)
(* step (FlushEffects), always before the next render.  A scroll event     *)
(* may be delivered between the two; every other handler runs on a         *)
(* settled component.                                                      *)
(***************************************************************************)
EXTENDS Integers, Sequences, FiniteSets, TLC

VARIABLES
    \* ---- ServerDetail: props, state and refs
    status,            \* server?.status as rendered
    logs,              \* useState<string[]>            (ServerDetail.tsx:43)
    isStreaming,       \* useState(false)               (ServerDetail.tsx:44)
    autoScroll,        \* useState(true)                (ServerDetail.tsx:45)
    userScrolledRef,   \* useRef(false)                 (ServerDetail.tsx:46)
    lastLogCountRef,   \* useRef(0)                     (ServerDetail.tsx:47)
    oauthUrl,          \* useState<string | null>(null) (ServerDetail.tsx:57)
    oauthCode,         \* useState<string | null>(null) (ServerDetail.tsx:58)
    oauthDismissed,    \* useState(false)               (ServerDetail.tsx:59)
    prevStatusRef,     \* useRef(server?.status)        (ServerDetail.tsx:179)
    scrollTop,         \* consoleRef.current.scrollTop
    effectDeps,        \* dependency values of the last render whose effects ran
    sinceDismiss,      \* history: "none" | "dismissed" | "cleared"
    command,           \* useState('')                 (ServerDetail.tsx:42)
    commandHistory,    \* useState<string[]>([])       (ServerDetail.tsx:48)
    historyIndex,      \* useState(-1)                 (ServerDetail.tsx:49)
    dispatched,        \* history: <<cmd>>, the command last given to sendCommand
    upRun,             \* history: ArrowUp presses since the last other input
    lastInput,         \* history: "none" | "type" | "submit" | "up" | "down"
    \* ---- ConsoleLine: one line and what the interpreter made of it
    rawLine,           \* the line, as its characters
    segments,          \* the TextSegment[] parseAnsi returned for it
    parsed,            \* ConsoleLine has rendered the line
    lineClass,         \* the lineClass ConsoleLine gave the line's element
    \* ---- the main initialization effect, its fetch and its subscription
    serverLog,         \* the lines the server has written so far
    fetch,             \* get_server_logs: "idle" | "called" | "answered" | "done"
                       \*                  | "failed"
    response,          \* response.logs of get_server_logs, once answered
    subscription,      \* listen: "none" | "listening" | "registered"
    events,            \* the 'server-log' events on their way to the listener
    delivered,         \* history: the lines the listener was called with
    \* ---- sendCommand of the store and its send_command calls
    sending,           \* the send_command calls in flight
    error,             \* store: error, Null for null
    invoked,           \* history: the send_command calls made so far
    submitted,         \* history: the non-empty submits so far
    \* ---- handleRestart
    restartPhase,      \* how far each restart is: "idle", the call its
                       \* stopServer awaits, "timer" or "started"
    restartStarts,     \* history: the startServer calls each restart made
    \* ---- useServerStore, the event system and the supervisor
    servers,           \* the server's status in the store's servers
    backend,           \* the server's status in the supervisor
    isLoading,         \* store: isLoading
    logUnlisten,       \* store: UnlistenFn | null, the listener's id, 0 for null
    storeIsStreaming,  \* store: isStreaming
    storeLogs,         \* store: logs, as the number of lines
    listeners,         \* the registered 'server-log' listeners
    nextId,            \* id of the next listener that registers
    inflight,          \* the awaits in flight, by operation and awaited call
    \* ---- the mounted ServerDetail
    mounted,           \* a ServerDetail is mounted
    inst,              \* which mount it is: 0 before the first
    unlistenRef,       \* unlistenRef.current of the mounted one, 0 for null
    lastStoreRequest   \* history: "none" | "attach" | "detach"

inputHistory == <<dispatched, upRun, lastInput>>

renderVars == <<rawLine, segments, parsed, lineClass>>

seedVars == <<serverLog, fetch, response, subscription, events, delivered>>

sendVars == <<sending, error, invoked, submitted>>

restartVars == <<restartPhase, restartStarts>>

consoleVars == <<status, logs, isStreaming, autoScroll, userScrolledRef,
                 lastLogCountRef, oauthUrl, oauthCode, oauthDismissed,
                 prevStatusRef, scrollTop, effectDeps, sinceDismiss,
                 command, commandHistory, historyIndex, inputHistory,
                 renderVars, seedVars, sendVars, restartVars>>

storeVars == <<servers, backend, isLoading, logUnlisten, storeIsStreaming,
               storeLogs, listeners, nextId, inflight, lastStoreRequest>>

viewVars == <<mounted, inst, unlistenRef>>

vars == <<consoleVars, storeVars, viewVars>>

----------------------------------------------------------------------------
\* Bounds of the model

MaxLogs == 4          \* longest buffer of the console specification
MaxScanLogs == 32     \* longest buffer of the scan specification
MaxTasks == 3         \* most awaits in flight at once
MaxListens == 3       \* most calls of listen in one run
MaxMounts == 2        \* most mounts of ServerDetail in one run
MaxStoreLogs == 2     \* most lines kept in the store's logs
MaxBurst == 2         \* most line events batched into one render
LineHeight == 25      \* height of one console line, in distance units
ViewLines == 1        \* lines that fit into the console viewport
MaxDetectLogs == 3    \* longest buffer of the pattern specification
MaxInputLogs == 2     \* longest buffer of the command specification
MaxUps == 4           \* most ArrowUp presses counted in a row
MaxPieces == 4        \* most pieces a line given to the interpreter is made of
MaxWrites == 2        \* most lines the server writes after the mount
MaxSeedLogs == 4      \* longest buffer of the seeding specification
MaxSubmits == 3       \* most non-empty submits of the sending specification
MaxWords == 3         \* most words of a line given to the classifier
MaxRestarts == 2      \* most clicks of Restart in one run

----------------------------------------------------------------------------
\* Values

Null == <<>>          \* null: no URL and no code is ever the empty text

Statuses == {"stopped", "starting", "installing", "running", "stopping", "error"}

Terminal == {"stopped", "error"}

\* useParams: the id of the server this ServerDetail shows
AttachedId == "s1"

Alnum == {"A", "B"}

PlainLine == <<"-">>

StoppingLine == <<"Stopping server...">>

RestartingLine == <<"Restarting server...">>

UrlLine(c) == <<"URL", c>>

\* a coloured line whose URL text is interrupted by an SGR sequence
SgrUrlLine(c) == <<"sgr", "URL", "sgr", c, "sgr">>

\* the lines streamed in the console specification, and in the scan one
ConsoleLines == {PlainLine, SgrUrlLine("A")}

ScanLines == {PlainLine, UrlLine("A"), SgrUrlLine("B")}

\* the URL up to user_code= at the end of a line, its value on the next one
UrlHeadLine == <<"URL">>

CodeLine == <<"A">>

\* the URL with no alphanumeric character after user_code=
EmptyCodeLine == <<"URL", "&", "A">>

\* the lines streamed in the pattern specification
DetectLines ==
    {PlainLine, UrlHeadLine, CodeLine, EmptyCodeLine, UrlLine("A"), SgrUrlLine("B")}

Min(a, b) == IF a < b THEN a ELSE b

Max(a, b) == IF a > b THEN a ELSE b

Reverse(s) == [i \in 1..Len(s) |-> s[Len(s) + 1 - i]]

----------------------------------------------------------------------------
\* The console element's geometry

ClientHeight == ViewLines * LineHeight

ScrollHeight(l) == Max(Len(l) * LineHeight, ClientHeight)

MaxScrollTop(l) == ScrollHeight(l) - ClientHeight

Positions(l) == {k * LineHeight : k \in 0..(MaxScrollTop(l) \div LineHeight)}

BottomTolerance == 50

isAtBottom(l, top) == ScrollHeight(l) - top - ClientHeight < BottomTolerance

----------------------------------------------------------------------------
\* The component as one record: what a render closes over, and what the
\* handlers and effects update.

Cur ==
    [status |-> status, logs |-> logs, isStreaming |-> isStreaming,
     autoScroll |-> autoScroll, userScrolledRef |-> userScrolledRef,
     lastLogCountRef |-> lastLogCountRef, oauthUrl |-> oauthUrl,
     oauthCode |-> oauthCode, oauthDismissed |-> oauthDismissed,
     prevStatusRef |-> prevStatusRef, scrollTop |-> scrollTop,
     command |-> command, commandHistory |-> commandHistory,
     historyIndex |-> historyIndex]

\* the dependency arrays of the three effects, by value
Deps(c) ==
    [status |-> c.status, len |-> Len(c.logs), autoScroll |-> c.autoScroll,
     logs |-> c.logs, oauthUrl |-> c.oauthUrl, oauthDismissed |-> c.oauthDismissed]

\* a render commits the new lines; the browser clamps the scroll offset
Render(c) == [c EXCEPT !.scrollTop = Min(@, MaxScrollTop(c.logs))]

Commit(c) ==
    /\ status' = c.status
    /\ logs' = c.logs
    /\ isStreaming' = c.isStreaming
    /\ autoScroll' = c.autoScroll
    /\ userScrolledRef' = c.userScrolledRef
    /\ lastLogCountRef' = c.lastLogCountRef
    /\ oauthUrl' = c.oauthUrl
    /\ oauthCode' = c.oauthCode
    /\ oauthDismissed' = c.oauthDismissed
    /\ prevStatusRef' = c.prevStatusRef
    /\ scrollTop' = Render(c).scrollTop
    /\ command' = c.command
    /\ commandHistory' = c.commandHistory
    /\ historyIndex' = c.historyIndex

Pending == Deps(Cur) # effectDeps

----------------------------------------------------------------------------
\* Device-code detection

cleanLine(line) == SelectSeq(line, LAMBDA t : t \notin {"sgr", "ctl"})

\* the alphanumeric run of s that starts at index i
RECURSIVE AlnumRun(_, _)
AlnumRun(s, i) ==
    IF i <= Len(s) /\ s[i] \in Alnum THEN <<s[i]>> \o AlnumRun(s, i + 1) ELSE <<>>

\* urlRegex: the first place where the URL text is followed by [A-Za-z0-9]+
MatchStarts(s) == {i \in 1..Len(s) : s[i] = "URL" /\ AlnumRun(s, i + 1) # <<>>}

FirstStart(s) == CHOOSE i \in MatchStarts(s) : \A j \in MatchStarts(s) : i <= j

NoMatch == [url |-> Null, code |-> Null]

\* mutant: the pattern's group is [A-Za-z0-9]*, an empty value matches
urlMatchEmptyCode(s) ==
    LET starts == {i \in 1..Len(s) : s[i] = "URL"}
        first == CHOOSE i \in starts : \A j \in starts : i <= j
    IN IF starts = {} THEN NoMatch
       ELSE [url |-> <<"URL">> \o AlnumRun(s, first + 1),
             code |-> AlnumRun(s, first + 1)]

urlMatch(s) ==
    IF MatchStarts(s) = {} THEN NoMatch
    ELSE [url |-> <<"URL">> \o AlnumRun(s, FirstStart(s) + 1),
          code |-> AlnumRun(s, FirstStart(s) + 1)]

ScanWindow == 30

\* mutant: the scan covers the whole buffer
recentLogsWhole(l) == Reverse(l)

\* mutant: the window is scanned from its oldest line to its newest
recentLogsOldestFirst(l) == SubSeq(l, Max(1, Len(l) - ScanWindow + 1), Len(l))

recentLogs(l) ==
    Reverse(SubSeq(l, Max(1, Len(l) - ScanWindow + 1), Len(l)))

\* the for loop over recentLogs: the first line that matches
RECURSIVE ScanFrom(_, _)
ScanFrom(r, i) ==
    IF i > Len(r) THEN NoMatch
    ELSE IF urlMatch(cleanLine(r[i])) # NoMatch THEN urlMatch(cleanLine(r[i]))
    ELSE ScanFrom(r, i + 1)

----------------------------------------------------------------------------
\* The effects of ServerDetail.  cl is the render an effect closes over; st
\* carries the refs (read and written at once) and the queued state updates.

\* mutant: the stop effect keeps the lines
ClearOnStopEffectKeepsLogs(cl, st) ==
    LET cleared ==
            IF st.prevStatusRef = "running" /\ cl.status = "stopped"
            THEN [st EXCEPT !.isStreaming = FALSE,
                            !.userScrolledRef = FALSE, !.autoScroll = TRUE]
            ELSE st
    IN [cleared EXCEPT !.prevStatusRef = cl.status]

\* "Clear logs when server stops"
ClearOnStopEffect(cl, st) ==
    LET cleared ==
            IF st.prevStatusRef = "running" /\ cl.status = "stopped"
            THEN [st EXCEPT !.logs = <<>>, !.isStreaming = FALSE,
                            !.userScrolledRef = FALSE, !.autoScroll = TRUE]
            ELSE st
    IN [cleared EXCEPT !.prevStatusRef = cl.status]

\* mutant: behavior 'smooth', the offset has not moved when the pass ends
AutoScrollEffectSmooth(cl, st) == [st EXCEPT !.lastLogCountRef = Len(cl.logs)]

\* mutant: the effect scrolls whatever autoScroll and userScrolledRef say
AutoScrollEffectAlways(cl, st) ==
    LET scrolled ==
            IF Len(cl.logs) > 0
            THEN [st EXCEPT !.scrollTop = MaxScrollTop(cl.logs)]
            ELSE st
    IN [scrolled EXCEPT !.lastLogCountRef = Len(cl.logs)]

\* "Auto-scroll - use instant for fast updates"; consoleEndRef.current is
\* the element after the last line, absent while the buffer is empty
AutoScrollEffect(cl, st) ==
    LET scrolled ==
            IF cl.autoScroll /\ Len(cl.logs) > 0 /\ ~st.userScrolledRef
            THEN [st EXCEPT !.scrollTop = MaxScrollTop(cl.logs)]
            ELSE st
    IN [scrolled EXCEPT !.lastLogCountRef = Len(cl.logs)]

\* mutant: the effect scans again although a URL is latched
OAuthEffectRescans(cl, st) ==
    IF cl.status \in Terminal
    THEN LET reset == IF cl.oauthUrl # Null
                      THEN [st EXCEPT !.oauthUrl = Null, !.oauthCode = Null]
                      ELSE st
         IN [reset EXCEPT !.oauthDismissed = FALSE]
    ELSE IF cl.oauthDismissed THEN st
    ELSE LET match == ScanFrom(recentLogs(cl.logs), 1)
         IN IF match # NoMatch
            THEN [st EXCEPT !.oauthUrl = match.url, !.oauthCode = match.code]
            ELSE st

\* mutant: the effect scans although the user dismissed the detection
OAuthEffectIgnoresDismissed(cl, st) ==
    IF cl.status \in Terminal
    THEN LET reset == IF cl.oauthUrl # Null
                      THEN [st EXCEPT !.oauthUrl = Null, !.oauthCode = Null]
                      ELSE st
         IN [reset EXCEPT !.oauthDismissed = FALSE]
    ELSE IF cl.oauthUrl # Null THEN st
    ELSE LET match == ScanFrom(recentLogs(cl.logs), 1)
         IN IF match # NoMatch
            THEN [st EXCEPT !.oauthUrl = match.url, !.oauthCode = match.code]
            ELSE st

\* mutant: the effect resets on a terminal status and scans all the same
OAuthEffectScansTerminal(cl, st) ==
    LET reset == IF cl.status \in Terminal /\ cl.oauthUrl # Null
                 THEN [st EXCEPT !.oauthUrl = Null, !.oauthCode = Null]
                 ELSE st
        match == ScanFrom(recentLogs(cl.logs), 1)
    IN IF cl.status \notin Terminal /\ (cl.oauthDismissed \/ cl.oauthUrl # Null)
       THEN st
       ELSE IF match # NoMatch
       THEN [reset EXCEPT !.oauthUrl = match.url, !.oauthCode = match.code,
                          !.oauthDismissed = IF cl.status \in Terminal THEN FALSE ELSE @]
       ELSE [reset EXCEPT !.oauthDismissed = IF cl.status \in Terminal THEN FALSE ELSE @]

\* "Detect OAuth URLs in logs"
OAuthEffect(cl, st) ==
    IF cl.status \in Terminal
    THEN LET reset == IF cl.oauthUrl # Null
                      THEN [st EXCEPT !.oauthUrl = Null, !.oauthCode = Null]
                      ELSE st
         IN [reset EXCEPT !.oauthDismissed = FALSE]
    ELSE IF cl.oauthDismissed \/ cl.oauthUrl # Null THEN st
    ELSE LET match == ScanFrom(recentLogs(cl.logs), 1)
         IN IF match # NoMatch
            THEN [st EXCEPT !.oauthUrl = match.url, !.oauthCode = match.code]
            ELSE st

\* the effects whose dependencies differ from pd, in the order of declaration
EffectsPass(cl, st, pd) ==
    LET d == Deps(cl)
        s1 == IF d.status # pd.status THEN ClearOnStopEffect(cl, st) ELSE st
        s2 == IF d.len # pd.len \/ d.autoScroll # pd.autoScroll
              THEN AutoScrollEffect(cl, s1) ELSE s1
        s3 == IF \/ d.logs # pd.logs
                 \/ d.oauthUrl # pd.oauthUrl
                 \/ d.oauthDismissed # pd.oauthDismissed
                 \/ d.status # pd.status
              THEN OAuthEffect(cl, s2) ELSE s2
    IN s3

----------------------------------------------------------------------------
\* The handlers of ServerDetail

\* mutant: a scroll away from the bottom unpins whatever the buffer length
handleScrollNoLengthGuard(c) ==
    LET s1 == IF ~isAtBottom(c.logs, c.scrollTop)
              THEN [c EXCEPT !.userScrolledRef = TRUE, !.autoScroll = FALSE]
              ELSE c
    IN IF isAtBottom(c.logs, c.scrollTop)
       THEN [s1 EXCEPT !.userScrolledRef = FALSE, !.autoScroll = TRUE]
       ELSE s1

\* mutant: a scroll to the bottom pins only if the buffer length is the
\* recorded one
handleScrollPinNeedsLength(c) ==
    LET s1 == IF ~isAtBottom(c.logs, c.scrollTop) /\ c.lastLogCountRef = Len(c.logs)
              THEN [c EXCEPT !.userScrolledRef = TRUE, !.autoScroll = FALSE]
              ELSE c
    IN IF isAtBottom(c.logs, c.scrollTop) /\ c.lastLogCountRef = Len(c.logs)
       THEN [s1 EXCEPT !.userScrolledRef = FALSE, !.autoScroll = TRUE]
       ELSE s1

handleScroll(c) ==
    LET s1 == IF ~isAtBottom(c.logs, c.scrollTop) /\ c.lastLogCountRef = Len(c.logs)
              THEN [c EXCEPT !.userScrolledRef = TRUE, !.autoScroll = FALSE]
              ELSE c
    IN IF isAtBottom(c.logs, c.scrollTop)
       THEN [s1 EXCEPT !.userScrolledRef = FALSE, !.autoScroll = TRUE]
       ELSE s1

handleStart(c) ==
    [c EXCEPT !.logs = <<>>, !.userScrolledRef = FALSE, !.autoScroll = TRUE,
              !.oauthUrl = Null, !.oauthCode = Null, !.oauthDismissed = FALSE]

handleStop(c) ==
    [c EXCEPT !.logs = <<StoppingLine>>, !.oauthUrl = Null, !.oauthCode = Null]

\* mutant: Clear forgets setOauthCode(null)
handleClearLogsKeepsCode(c) ==
    [c EXCEPT !.logs = <<>>, !.userScrolledRef = FALSE, !.autoScroll = TRUE,
              !.oauthUrl = Null, !.oauthDismissed = FALSE]

\* mutant: Clear resets the marker of the ref and leaves the autoScroll state
handleClearLogsRefOnly(c) ==
    [c EXCEPT !.logs = <<>>, !.userScrolledRef = FALSE,
              !.oauthUrl = Null, !.oauthCode = Null, !.oauthDismissed = FALSE]

handleClearLogs(c) ==
    [c EXCEPT !.logs = <<>>, !.userScrolledRef = FALSE, !.autoScroll = TRUE,
              !.oauthUrl = Null, !.oauthCode = Null, !.oauthDismissed = FALSE]

dismissClick(c) == [c EXCEPT !.oauthUrl = Null, !.oauthDismissed = TRUE]

\* mutant: the Bottom button pins and leaves the offset where it is
bottomClickNoJump(c) == [c EXCEPT !.userScrolledRef = FALSE, !.autoScroll = TRUE]

bottomClick(c) ==
    [c EXCEPT !.userScrolledRef = FALSE, !.autoScroll = TRUE,
              !.scrollTop = IF Len(c.logs) > 0 THEN MaxScrollTop(c.logs) ELSE @]

\* mutant: the listener puts the new lines before the old ones
appendLinesAtFront(c, batch) == [c EXCEPT !.logs = batch \o @]

\* the 'server-log' listener of the view, for the events of its own server
appendLines(c, batch) == [c EXCEPT !.logs = @ \o batch]

\* String.prototype.trim on a text of characters, " " the white space
RECURSIVE TrimStart(_)
TrimStart(s) == IF s # <<>> /\ Head(s) = " " THEN TrimStart(Tail(s)) ELSE s

Trim(s) == Reverse(TrimStart(Reverse(TrimStart(s))))

\* prev.filter(c => c !== cmd)
Without(h, cmd) == SelectSeq(h, LAMBDA x : x # cmd)

\* the line `> ${cmd}`
Echo(cmd) == <<">", " ">> \o cmd

\* commandHistory[commandHistory.length - 1 - index] || ''
Recalled(h, index) ==
    IF Len(h) - index \in 1..Len(h) THEN h[Len(h) - index] ELSE <<>>

\* mutant: the guard tests the text as typed, not trimmed
handleSendCommandNoTrimGuard(c) ==
    IF c.command = <<>> THEN c
    ELSE LET cmd == Trim(c.command)
         IN [c EXCEPT !.commandHistory = Append(Without(@, cmd), cmd),
                      !.historyIndex = -1,
                      !.logs = Append(@, Echo(cmd)),
                      !.command = <<>>]

\* mutant: the submitted command is appended without removing an equal one
handleSendCommandNoDedup(c) ==
    IF Trim(c.command) = <<>> THEN c
    ELSE LET cmd == Trim(c.command)
         IN [c EXCEPT !.commandHistory = Append(@, cmd),
                      !.historyIndex = -1,
                      !.logs = Append(@, Echo(cmd)),
                      !.command = <<>>]

\* mutant: the echo line carries the text as typed
handleSendCommandEchoesTyped(c) ==
    IF Trim(c.command) = <<>> THEN c
    ELSE LET cmd == Trim(c.command)
         IN [c EXCEPT !.commandHistory = Append(Without(@, cmd), cmd),
                      !.historyIndex = -1,
                      !.logs = Append(@, Echo(c.command)),
                      !.command = <<>>]

handleSendCommand(c) ==
    IF Trim(c.command) = <<>> THEN c
    ELSE LET cmd == Trim(c.command)
         IN [c EXCEPT !.commandHistory = Append(Without(@, cmd), cmd),
                      !.historyIndex = -1,
                      !.logs = Append(@, Echo(cmd)),
                      !.command = <<>>]

\* mutant: ArrowUp steps past the oldest entry
handleArrowUpUnbounded(c) ==
    IF Len(c.commandHistory) > 0
    THEN LET newIndex == c.historyIndex + 1
         IN [c EXCEPT !.historyIndex = newIndex,
                      !.command = Recalled(c.commandHistory, newIndex)]
    ELSE c

\* handleKeyDown, e.key === 'ArrowUp'
handleArrowUp(c) ==
    IF Len(c.commandHistory) > 0
    THEN LET newIndex == IF c.historyIndex < Len(c.commandHistory) - 1
                         THEN c.historyIndex + 1 ELSE c.historyIndex
         IN [c EXCEPT !.historyIndex = newIndex,
                      !.command = Recalled(c.commandHistory, newIndex)]
    ELSE c

\* mutant: ArrowDown at the newest entry keeps showing it
handleArrowDownRepeatsNewest(c) ==
    IF c.historyIndex > 0
    THEN LET newIndex == c.historyIndex - 1
         IN [c EXCEPT !.historyIndex = newIndex,
                      !.command = Recalled(c.commandHistory, newIndex)]
    ELSE IF c.historyIndex = 0
    THEN [c EXCEPT !.command = Recalled(c.commandHistory, 0)]
    ELSE [c EXCEPT !.historyIndex = -1, !.command = <<>>]

\* handleKeyDown, e.key === 'ArrowDown'
\* mutant: ArrowDown steps the cursor down without stopping at -1
handleArrowDownUnbounded(c) ==
    LET newIndex == c.historyIndex - 1
    IN [c EXCEPT !.historyIndex = newIndex,
                 !.command = Recalled(c.commandHistory, newIndex)]

handleArrowDown(c) ==
    IF c.historyIndex > 0
    THEN LET newIndex == c.historyIndex - 1
         IN [c EXCEPT !.historyIndex = newIndex,
                      !.command = Recalled(c.commandHistory, newIndex)]
    ELSE [c EXCEPT !.historyIndex = -1, !.command = <<>>]

----------------------------------------------------------------------------
\* Actions of the console

Batches == UNION {[1..n -> ConsoleLines] : n \in 1..MaxBurst}

\* the store delivers a new status of the server (fetchServers)
StatusChange(s) ==
    /\ ~Pending
    /\ s # status
    /\ Commit([Cur EXCEPT !.status = s])
    /\ sinceDismiss' = IF s \in Terminal THEN "none" ELSE sinceDismiss
    /\ UNCHANGED <<effectDeps, inputHistory>>

Stream(batch, limit) ==
    /\ ~Pending
    /\ Len(logs) + Len(batch) <= limit
    /\ Commit(appendLines(Cur, batch))
    /\ UNCHANGED <<effectDeps, sinceDismiss, inputHistory>>

FlushEffects ==
    /\ Pending
    /\ Commit(EffectsPass(Cur, Cur, effectDeps))
    /\ effectDeps' = Deps(Cur)
    /\ UNCHANGED <<sinceDismiss, inputHistory>>

\* the user (or the browser, after a programmatic scroll) scrolls to p
ScrollEvent(p) ==
    LET c0 == [Cur EXCEPT !.scrollTop = p]
        c1 == handleScroll(c0)
    IN /\ p \in Positions(logs)
       /\ IF Pending /\ c1.autoScroll # c0.autoScroll
          THEN /\ Commit(EffectsPass(c0, c1, effectDeps))
               /\ effectDeps' = Deps(c0)
          ELSE /\ Commit(c1)
               /\ UNCHANGED effectDeps
       /\ UNCHANGED <<sinceDismiss, inputHistory>>

StartClick ==
    /\ ~Pending
    /\ status = "stopped"
    /\ Commit(handleStart(Cur))
    /\ UNCHANGED <<effectDeps, sinceDismiss, inputHistory>>

StopClick ==
    /\ ~Pending
    /\ status = "running"
    /\ Commit(handleStop(Cur))
    /\ UNCHANGED <<effectDeps, sinceDismiss, inputHistory>>

ClearClick ==
    /\ ~Pending
    /\ Commit(handleClearLogs(Cur))
    /\ sinceDismiss' = IF sinceDismiss = "dismissed" THEN "cleared" ELSE sinceDismiss
    /\ UNCHANGED <<effectDeps, inputHistory>>

DismissClick ==
    /\ ~Pending
    /\ oauthUrl # Null
    /\ Commit(dismissClick(Cur))
    /\ sinceDismiss' = IF status \in Terminal THEN sinceDismiss ELSE "dismissed"
    /\ UNCHANGED <<effectDeps, inputHistory>>

BottomClick ==
    /\ ~Pending
    /\ ~autoScroll
    /\ Commit(bottomClick(Cur))
    /\ UNCHANGED <<effectDeps, sinceDismiss, inputHistory>>

\* the texts the user types into the command input
Inputs == {<<" ">>, <<"A">>, <<" ", "B", " ">>, <<"A", " ", "B">>}

\* the input's onChange
TypeCommand(text) ==
    /\ ~Pending
    /\ status = "running"
    /\ Commit([Cur EXCEPT !.command = text])
    /\ upRun' = 0
    /\ lastInput' = "type"
    /\ UNCHANGED <<effectDeps, sinceDismiss, dispatched>>

\* Enter in the input, or the Send button: handleSendCommand, which hands
\* the trimmed command to sendCommand
SubmitCommand(limit) ==
    LET c1 == handleSendCommand(Cur) IN
    /\ ~Pending
    /\ status = "running"
    /\ Len(c1.logs) <= limit
    /\ Commit(c1)
    /\ dispatched' = IF c1 = Cur THEN dispatched
                     ELSE <<c1.commandHistory[Len(c1.commandHistory)]>>
    /\ upRun' = 0
    /\ lastInput' = "submit"
    /\ UNCHANGED <<effectDeps, sinceDismiss>>

ArrowUp ==
    /\ ~Pending
    /\ status = "running"
    /\ Commit(handleArrowUp(Cur))
    /\ upRun' = Min(upRun + 1, MaxUps)
    /\ lastInput' = "up"
    /\ UNCHANGED <<effectDeps, sinceDismiss, dispatched>>

ArrowDown ==
    /\ ~Pending
    /\ status = "running"
    /\ Commit(handleArrowDown(Cur))
    /\ upRun' = 0
    /\ lastInput' = "down"
    /\ UNCHANGED <<effectDeps, sinceDismiss, dispatched>>

\* the mounted component: nothing fetched, nothing streamed, effects run
ConsoleInit ==
    /\ status \in Statuses
    /\ logs = <<>>
    /\ isStreaming = FALSE
    /\ autoScroll = TRUE
    /\ userScrolledRef = FALSE
    /\ lastLogCountRef = 0
    /\ oauthUrl = Null
    /\ oauthCode = Null
    /\ oauthDismissed = FALSE
    /\ prevStatusRef = status
    /\ scrollTop = 0
    /\ command = <<>>
    /\ commandHistory = <<>>
    /\ historyIndex = -1
    /\ dispatched = <<>>
    /\ upRun = 0
    /\ lastInput = "none"
    /\ effectDeps = Deps(Cur)
    /\ sinceDismiss = "none"

\* no line rendered yet
RenderInit ==
    /\ rawLine = <<>>
    /\ segments = <<>>
    /\ parsed = FALSE
    /\ lineClass = ""

\* nothing fetched, nothing subscribed
SeedIdle ==
    /\ serverLog = <<>>
    /\ fetch = "idle"
    /\ response = <<>>
    /\ subscription = "none"
    /\ events = <<>>
    /\ delivered = <<>>

\* no command sent, no error recorded
RestartIdle ==
    /\ restartPhase = [r \in 1..MaxRestarts |-> "idle"]
    /\ restartStarts = [r \in 1..MaxRestarts |-> 0]

SendIdle ==
    /\ sending = <<>>
    /\ error = Null
    /\ invoked = 0
    /\ submitted = 0

----------------------------------------------------------------------------
\* The store (serverStore.ts), the view's subscription (ServerDetail.tsx,
\* main initialization effect) and the event system they share.  An async
\* function runs up to its first await in the step that calls it; each
\* await that resolves is a step of its own.  No awaited call fails here.

Task(op, pc, i) == [op |-> op, pc |-> pc, inst |-> i]

TaskKinds ==
    {Task("startServer", pc, 0) :
        pc \in {"listen", "attach_server", "start_server", "list_servers"}}
    \cup {Task("stopServer", pc, 0) :
        pc \in {"stop_server", "detach_server", "list_servers"}}
    \cup {Task("deleteServer", pc, 0) :
        pc \in {"detach_server", "delete_server", "list_servers"}}
    \cup {Task("fetchServers", "list_servers", 0)}
    \cup {Task("setupStreaming", pc, i) :
        pc \in {"listen", "attach_server"}, i \in 1..(MaxMounts + 1)}

RECURSIVE Total(_, _)
Total(f, S) ==
    IF S = {} THEN 0
    ELSE LET k == CHOOSE x \in S : TRUE IN f[k] + Total(f, S \ {k})

InFlight == Total(inflight, TaskKinds)

ListensPending == Total(inflight, {k \in TaskKinds : k.pc = "listen"})

CanListen == (nextId - 1) + ListensPending < MaxListens

Began(f, k) == [f EXCEPT ![k] = @ + 1]

Moved(f, k, pc) ==
    [f EXCEPT ![k] = @ - 1, ![Task(k.op, pc, k.inst)] = @ + 1]

Ended(f, k) == [f EXCEPT ![k] = @ - 1]

Listener(id, owner, i) == [id |-> id, owner |-> owner, inst |-> i]

Unlistened(ls, id) == {l \in ls : l.id # id}

\* attachToServer up to its await of listen: the listener the store holds is
\* cancelled, a new registration is asked for
attachToServerCall ==
    /\ listeners' = Unlistened(listeners, logUnlisten)
    /\ logUnlisten' = 0
    /\ lastStoreRequest' = "attach"

\* detachFromServer up to its await of detach_server
detachFromServerCall ==
    /\ listeners' = Unlistened(listeners, logUnlisten)
    /\ logUnlisten' = 0
    /\ storeIsStreaming' = IF logUnlisten # 0 THEN FALSE ELSE storeIsStreaming
    /\ lastStoreRequest' = "detach"

\* fetchServers up to its await of list_servers
fetchServersCall == isLoading' = TRUE

\* Start (ServerDetail.tsx:576, ServerCard.tsx:79): startServer
StartServer ==
    /\ servers = "stopped" /\ ~isLoading
    /\ InFlight < MaxTasks /\ CanListen
    /\ isLoading' = TRUE
    /\ storeLogs' = 0
    /\ attachToServerCall
    /\ inflight' = Began(inflight, Task("startServer", "listen", 0))
    /\ UNCHANGED <<servers, backend, storeIsStreaming, nextId>>
    /\ UNCHANGED <<consoleVars, viewVars>>

\* attachToServer: listen resolved, the listener is registered and kept
StoreListenResolved ==
    LET k == Task("startServer", "listen", 0) IN
    /\ inflight[k] > 0
    /\ listeners' = listeners \cup {Listener(nextId, "store", 0)}
    /\ nextId' = nextId + 1
    /\ logUnlisten' = nextId
    /\ storeIsStreaming' = TRUE
    /\ inflight' = Moved(inflight, k, "attach_server")
    /\ UNCHANGED <<servers, backend, isLoading, storeLogs, lastStoreRequest>>
    /\ UNCHANGED <<consoleVars, viewVars>>

\* startServer: attachToServer returned, start_server is invoked
StoreAttachResolved ==
    LET k == Task("startServer", "attach_server", 0) IN
    /\ inflight[k] > 0
    /\ inflight' = Moved(inflight, k, "start_server")
    /\ UNCHANGED <<servers, backend, isLoading, logUnlisten, storeIsStreaming,
                   storeLogs, listeners, nextId, lastStoreRequest>>
    /\ UNCHANGED <<consoleVars, viewVars>>

\* startServer: start_server resolved, fetchServers is called
StartResolved ==
    LET k == Task("startServer", "start_server", 0) IN
    /\ inflight[k] > 0
    /\ backend' = IF backend = "none" THEN backend ELSE "running"
    /\ fetchServersCall
    /\ inflight' = Moved(inflight, k, "list_servers")
    /\ UNCHANGED <<servers, logUnlisten, storeIsStreaming, storeLogs, listeners,
                   nextId, lastStoreRequest>>
    /\ UNCHANGED <<consoleVars, viewVars>>

\* Stop (ServerDetail.tsx:581, ServerCard.tsx:88): stopServer
StopServer ==
    /\ servers = "running" /\ ~isLoading
    /\ InFlight < MaxTasks
    /\ isLoading' = TRUE
    /\ inflight' = Began(inflight, Task("stopServer", "stop_server", 0))
    /\ UNCHANGED <<servers, backend, logUnlisten, storeIsStreaming, storeLogs,
                   listeners, nextId, lastStoreRequest>>
    /\ UNCHANGED <<consoleVars, viewVars>>

\* stopServer: stop_server resolved, detachFromServer is called
StopResolved ==
    LET k == Task("stopServer", "stop_server", 0) IN
    /\ inflight[k] > 0
    /\ backend' = IF backend = "none" THEN backend ELSE "stopped"
    /\ detachFromServerCall
    /\ inflight' = Moved(inflight, k, "detach_server")
    /\ UNCHANGED <<servers, isLoading, storeLogs, nextId>>
    /\ UNCHANGED <<consoleVars, viewVars>>

\* stopServer: detachFromServer returned, fetchServers is called
StopDetachResolved ==
    LET k == Task("stopServer", "detach_server", 0) IN
    /\ inflight[k] > 0
    /\ fetchServersCall
    /\ inflight' = Moved(inflight, k, "list_servers")
    /\ UNCHANGED <<servers, backend, logUnlisten, storeIsStreaming, storeLogs,
                   listeners, nextId, lastStoreRequest>>
    /\ UNCHANGED <<consoleVars, viewVars>>

\* Delete (ServerDetail.tsx:603, ServerCard.tsx:99): deleteServer
DeleteServer ==
    /\ servers \notin {"running", "none"} /\ ~isLoading
    /\ InFlight < MaxTasks
    /\ isLoading' = TRUE
    /\ detachFromServerCall
    /\ inflight' = Began(inflight, Task("deleteServer", "detach_server", 0))
    /\ UNCHANGED <<servers, backend, storeLogs, nextId>>
    /\ UNCHANGED <<consoleVars, viewVars>>

\* deleteServer: detachFromServer returned, delete_server is invoked
DeleteDetachResolved ==
    LET k == Task("deleteServer", "detach_server", 0) IN
    /\ inflight[k] > 0
    /\ inflight' = Moved(inflight, k, "delete_server")
    /\ UNCHANGED <<servers, backend, isLoading, logUnlisten, storeIsStreaming,
                   storeLogs, listeners, nextId, lastStoreRequest>>
    /\ UNCHANGED <<consoleVars, viewVars>>

\* deleteServer: delete_server resolved, fetchServers is called
DeleteResolved ==
    LET k == Task("deleteServer", "delete_server", 0) IN
    /\ inflight[k] > 0
    /\ backend' = "none"
    /\ fetchServersCall
    /\ inflight' = Moved(inflight, k, "list_servers")
    /\ UNCHANGED <<servers, logUnlisten, storeIsStreaming, storeLogs, listeners,
                   nextId, lastStoreRequest>>
    /\ UNCHANGED <<consoleVars, viewVars>>

\* the refresh of the server list every 10 seconds (App.tsx:31)
FetchServers ==
    /\ InFlight < MaxTasks
    /\ fetchServersCall
    /\ inflight' = Began(inflight, Task("fetchServers", "list_servers", 0))
    /\ UNCHANGED <<servers, backend, logUnlisten, storeIsStreaming, storeLogs,
                   listeners, nextId, lastStoreRequest>>
    /\ UNCHANGED <<consoleVars, viewVars>>

\* fetchServers: list_servers resolved; then the rest of the operation that
\* awaited fetchServers
ListResolved(op) ==
    LET k == Task(op, "list_servers", 0) IN
    /\ inflight[k] > 0
    /\ servers' = backend
    /\ isLoading' = FALSE
    /\ storeIsStreaming' = IF op = "stopServer" THEN FALSE ELSE storeIsStreaming
    /\ inflight' = Ended(inflight, k)
    /\ UNCHANGED <<backend, logUnlisten, storeLogs, listeners, nextId,
                   lastStoreRequest>>
    /\ UNCHANGED <<consoleVars, viewVars>>

\* a 'server-log' event of this server: every registered listener of the
\* store appends the line to the store's logs
LineEvent ==
    LET n == Cardinality({l \in listeners : l.owner = "store"}) IN
    /\ n > 0
    /\ storeLogs < MaxStoreLogs
    /\ storeLogs' = Min(storeLogs + n, MaxStoreLogs)
    /\ UNCHANGED <<servers, backend, isLoading, logUnlisten, storeIsStreaming,
                   listeners, nextId, inflight, lastStoreRequest>>
    /\ UNCHANGED <<consoleVars, viewVars>>

\* ServerDetail mounts: the main initialization effect calls fetchServers
\* and setupStreaming, which awaits listen
Mount ==
    /\ ~mounted /\ inst < MaxMounts
    /\ servers # "none"
    /\ InFlight + 2 <= MaxTasks /\ CanListen
    /\ mounted' = TRUE
    /\ inst' = inst + 1
    /\ unlistenRef' = 0
    /\ fetchServersCall
    /\ inflight' = Began(Began(inflight, Task("fetchServers", "list_servers", 0)),
                         Task("setupStreaming", "listen", inst + 1))
    /\ UNCHANGED <<servers, backend, logUnlisten, storeIsStreaming, storeLogs,
                   listeners, nextId, lastStoreRequest>>
    /\ UNCHANGED consoleVars

\* setupStreaming of mount i: listen resolved; unlistenRef is the ref of the
\* component that called it
ViewListenResolved(i) ==
    LET k == Task("setupStreaming", "listen", i) IN
    /\ inflight[k] > 0
    /\ listeners' = listeners \cup {Listener(nextId, "view", i)}
    /\ nextId' = nextId + 1
    /\ unlistenRef' = IF mounted /\ inst = i THEN nextId ELSE unlistenRef
    /\ inflight' = Moved(inflight, k, "attach_server")
    /\ UNCHANGED <<servers, backend, isLoading, logUnlisten, storeIsStreaming,
                   storeLogs, lastStoreRequest>>
    /\ UNCHANGED <<consoleVars, mounted, inst>>

\* setupStreaming of mount i: attach_server resolved
ViewAttachResolved(i) ==
    LET k == Task("setupStreaming", "attach_server", i) IN
    /\ inflight[k] > 0
    /\ inflight' = Ended(inflight, k)
    /\ UNCHANGED <<servers, backend, isLoading, logUnlisten, storeIsStreaming,
                   storeLogs, listeners, nextId, lastStoreRequest>>
    /\ UNCHANGED <<consoleVars, viewVars>>

\* ServerDetail unmounts: the cleanup of the main initialization effect
Unmount ==
    /\ mounted
    /\ mounted' = FALSE
    /\ listeners' = Unlistened(listeners, unlistenRef)
    /\ unlistenRef' = 0
    /\ UNCHANGED <<servers, backend, isLoading, logUnlisten, storeIsStreaming,
                   storeLogs, nextId, inflight, lastStoreRequest>>
    /\ UNCHANGED <<consoleVars, inst>>

StoreInit ==
    /\ servers = "stopped"
    /\ backend = "stopped"
    /\ isLoading = FALSE
    /\ logUnlisten = 0
    /\ storeIsStreaming = FALSE
    /\ storeLogs = 0
    /\ listeners = {}
    /\ nextId = 1
    /\ inflight = [k \in TaskKinds |-> 0]
    /\ lastStoreRequest = "none"
    /\ mounted = FALSE
    /\ inst = 0
    /\ unlistenRef = 0

StoreSpecInit ==
    /\ StoreInit
    /\ ConsoleInit
    /\ RenderInit
    /\ SeedIdle
    /\ SendIdle
    /\ RestartIdle
    /\ status = "stopped"

StoreNext ==
    \/ StartServer
    \/ StoreListenResolved
    \/ StoreAttachResolved
    \/ StartResolved
    \/ StopServer
    \/ StopResolved
    \/ StopDetachResolved
    \/ DeleteServer
    \/ DeleteDetachResolved
    \/ DeleteResolved
    \/ FetchServers
    \/ \E op \in {"startServer", "stopServer", "deleteServer", "fetchServers"} :
          ListResolved(op)
    \/ LineEvent
    \/ Mount
    \/ \E i \in 1..MaxMounts : ViewListenResolved(i)
    \/ \E i \in 1..MaxMounts : ViewAttachResolved(i)
    \/ Unmount

SpecStore == StoreSpecInit /\ [][StoreNext]_vars

Init == ConsoleInit /\ StoreInit /\ RenderInit /\ SeedIdle /\ SendIdle /\ RestartIdle

ConsoleNext ==
    \/ \E s \in Statuses : StatusChange(s)
    \/ \E batch \in Batches : Stream(batch, MaxLogs)
    \/ FlushEffects
    \/ \E p \in 0..(MaxLogs * LineHeight) : ScrollEvent(p)
    \/ StartClick
    \/ StopClick
    \/ ClearClick
    \/ DismissClick
    \/ BottomClick

Next == ConsoleNext /\ UNCHANGED <<storeVars, viewVars, renderVars, seedVars, sendVars, restartVars>>

Spec == Init /\ [][Next]_vars

----------------------------------------------------------------------------
\* The scan specification: a session whose buffer has just been seeded by
\* fetchInitialLogs (setLogs(response.logs), rendered, effects not yet run)
\* with a tail about as long as the scanned window that holds at most one
\* verification URL, and then grows line by line.

PlainBuffer(n) == [i \in 1..n |-> PlainLine]

SeedLengths == (ScanWindow - 1)..MaxScanLogs

ScanSeeds ==
    {PlainBuffer(n) : n \in SeedLengths}
        \cup {[PlainBuffer(nk[1]) EXCEPT ![nk[2]] = u] :
                nk \in {x \in SeedLengths \X (1..MaxScanLogs) : x[2] <= x[1]},
                u \in ScanLines \ {PlainLine}}

ScanInit ==
    /\ status \in {"starting", "running"}
    /\ logs \in ScanSeeds
    /\ isStreaming = FALSE
    /\ autoScroll = TRUE
    /\ userScrolledRef = FALSE
    /\ lastLogCountRef = 0
    /\ oauthUrl = Null
    /\ oauthCode = Null
    /\ oauthDismissed = FALSE
    /\ prevStatusRef = status
    /\ scrollTop = 0
    /\ command = <<>>
    /\ commandHistory = <<>>
    /\ historyIndex = -1
    /\ dispatched = <<>>
    /\ upRun = 0
    /\ lastInput = "none"
    /\ RenderInit
    /\ SeedIdle
    /\ SendIdle
    /\ RestartIdle
    /\ effectDeps = Deps([Cur EXCEPT !.logs = <<>>])
    /\ sinceDismiss = "none"
    /\ StoreInit

ScanNext ==
    /\ \/ \E l \in ScanLines : Stream(<<l>>, MaxScanLogs)
       \/ FlushEffects
       \/ DismissClick
    /\ UNCHANGED <<storeVars, viewVars, renderVars, seedVars, sendVars, restartVars>>

SpecScan == ScanInit /\ [][ScanNext]_vars

----------------------------------------------------------------------------
\* The pattern specification: a console that is streamed, one line or a
\* burst of lines to a render, the verification URL whole, cut at the end of
\* a line, or without a value.

DetectBatches == UNION {[1..n -> DetectLines] : n \in 1..MaxBurst}

DetectNext ==
    /\ \/ \E batch \in DetectBatches : Stream(batch, MaxDetectLogs)
       \/ FlushEffects
       \/ DismissClick
       \/ ClearClick
    /\ UNCHANGED <<storeVars, viewVars, renderVars, seedVars, sendVars, restartVars>>

SpecDetect == Init /\ [][DetectNext]_vars

----------------------------------------------------------------------------
\* The command specification: the console of a running server, with its
\* command input, streamed a few lines.

InputInit == Init /\ status = "running"

InputNext ==
    /\ \/ \E l \in ConsoleLines : Stream(<<l>>, MaxInputLogs)
       \/ FlushEffects
       \/ \E p \in 0..(MaxInputLogs * LineHeight) : ScrollEvent(p)
       \/ \E text \in Inputs : TypeCommand(text)
       \/ SubmitCommand(MaxInputLogs)
       \/ ArrowUp
       \/ ArrowDown
       \/ ClearClick
       \/ DismissClick
    /\ UNCHANGED <<storeVars, viewVars, renderVars, seedVars, sendVars, restartVars>>

SpecInput == InputInit /\ [][InputNext]_vars

----------------------------------------------------------------------------
\* The sending specification: the console of a running server whose submits
\* reach sendCommand of the store; each send_command call resolves or
\* rejects in a later step, in any order.

Call(serverId, cmd) == [serverId |-> serverId, command |-> cmd]

RemoveAt(q, i) == SubSeq(q, 1, i - 1) \o SubSeq(q, i + 1, Len(q))

\* sendCommand up to its await: invoke('send_command', { serverId, command })
sendCommandCall(serverId, cmd) ==
    /\ sending' = Append(sending, Call(serverId, cmd))
    /\ invoked' = invoked + 1

\* Enter or Send: handleSendCommand and, for a command that is not empty,
\* its call sendCommand(server.id, cmd)
SendSubmit ==
    /\ Trim(command) # <<>> => submitted < MaxSubmits
    /\ SubmitCommand(MaxSubmits)
    /\ IF Trim(command) # <<>>
       THEN /\ sendCommandCall(AttachedId, Trim(command))
            /\ submitted' = submitted + 1
            /\ UNCHANGED error
       ELSE UNCHANGED sendVars

\* sendCommand: the await of send_command resolved, the result is returned
SendResolved(i) ==
    /\ i \in 1..Len(sending)
    /\ sending' = RemoveAt(sending, i)
    /\ UNCHANGED <<error, invoked, submitted>>
    /\ UNCHANGED <<status, logs, isStreaming, autoScroll, userScrolledRef,
                   lastLogCountRef, oauthUrl, oauthCode, oauthDismissed,
                   prevStatusRef, scrollTop, effectDeps, sinceDismiss,
                   command, commandHistory, historyIndex, inputHistory>>

\* mutant: the catch sends the command again
SendFailedRetries(i) ==
    /\ i \in 1..Len(sending)
    /\ sending' = Append(RemoveAt(sending, i), sending[i])
    /\ invoked' = invoked + 1
    /\ error' = <<"send_command">>
    /\ UNCHANGED submitted
    /\ UNCHANGED <<status, logs, isStreaming, autoScroll, userScrolledRef,
                   lastLogCountRef, oauthUrl, oauthCode, oauthDismissed,
                   prevStatusRef, scrollTop, effectDeps, sinceDismiss,
                   command, commandHistory, historyIndex, inputHistory>>

\* sendCommand: send_command rejected, the catch sets error and returns null
SendFailed(i) ==
    /\ i \in 1..Len(sending)
    /\ sending' = RemoveAt(sending, i)
    /\ error' = <<"send_command">>
    /\ UNCHANGED <<invoked, submitted>>
    /\ UNCHANGED <<status, logs, isStreaming, autoScroll, userScrolledRef,
                   lastLogCountRef, oauthUrl, oauthCode, oauthDismissed,
                   prevStatusRef, scrollTop, effectDeps, sinceDismiss,
                   command, commandHistory, historyIndex, inputHistory>>

SendNext ==
    /\ \/ (\E text \in Inputs : TypeCommand(text)) /\ UNCHANGED sendVars
       \/ SendSubmit
       \/ FlushEffects /\ UNCHANGED sendVars
       \/ \E i \in 1..MaxSubmits : SendResolved(i)
       \/ \E i \in 1..MaxSubmits : SendFailed(i)
    /\ UNCHANGED <<storeVars, viewVars, renderVars, seedVars, restartVars>>

SpecSend == InputInit /\ [][SendNext]_vars

----------------------------------------------------------------------------
\* Maintenance (ServerDetail.tsx, settings tab): Update and Reinstall empty
\* the buffer and call the store; the state of the page lives on while the
\* settings tab is shown.  The console's events run beside them.

\* the onClick of Update, and of Reinstall once confirm() is accepted, up
\* to the await of the store's call
maintenanceClick(c) == [c EXCEPT !.logs = <<>>]

\* Update (ServerDetail.tsx:1025)
UpdateClick ==
    /\ ~Pending
    /\ status \notin {"running", "installing"}
    /\ Commit(maintenanceClick(Cur))
    /\ UNCHANGED <<effectDeps, sinceDismiss, inputHistory>>

\* Reinstall (ServerDetail.tsx:1043), the confirm() accepted
ReinstallClick ==
    /\ ~Pending
    /\ status \notin {"running", "installing"}
    /\ Commit(maintenanceClick(Cur))
    /\ UNCHANGED <<effectDeps, sinceDismiss, inputHistory>>

MaintenanceNext ==
    /\ \/ ConsoleNext
       \/ UpdateClick
       \/ ReinstallClick
    /\ UNCHANGED <<storeVars, viewVars, renderVars, seedVars, sendVars, restartVars>>

SpecMaintenance == Init /\ [][MaintenanceNext]_vars

----------------------------------------------------------------------------
\* Restart (ServerDetail.tsx, handleRestart): the page replaces the buffer,
\* awaits stopServer of the store and then sets a timer of two seconds whose
\* callback calls startServer.  Each click is one restart; the store's other
\* operations and the refresh of the list run beside it.

pageVars == <<status, logs, isStreaming, autoScroll, userScrolledRef,
              lastLogCountRef, oauthUrl, oauthCode, oauthDismissed,
              prevStatusRef, scrollTop, effectDeps, sinceDismiss,
              command, commandHistory, historyIndex, inputHistory,
              renderVars, seedVars, sendVars>>

StopAwaits == {"stop_server", "detach_server", "list_servers"}

handleRestart(c) == [c EXCEPT !.logs = <<RestartingLine>>]

\* mutant: the timer is set at the click, without awaiting stopServer
RestartTimerSetAtClick(r) == restartPhase[r] \in StopAwaits \cup {"timer"}

\* the timer of restart r is set: its stopServer has returned
RestartTimerSet(r) == restartPhase[r] = "timer"

\* Restart (ServerDetail.tsx:584): handleRestart up to the first await of
\* stopServer
RestartClick(r) ==
    /\ ~Pending
    /\ servers = "running" /\ ~isLoading
    /\ restartPhase[r] = "idle"
    /\ \A q \in 1..(r - 1) : restartPhase[q] # "idle"
    /\ Commit(handleRestart(Cur))
    /\ isLoading' = TRUE
    /\ restartPhase' = [restartPhase EXCEPT ![r] = "stop_server"]
    /\ UNCHANGED <<effectDeps, sinceDismiss, inputHistory, renderVars, seedVars,
                   sendVars, restartStarts>>
    /\ UNCHANGED <<servers, backend, logUnlisten, storeIsStreaming, storeLogs,
                   listeners, nextId, inflight, lastStoreRequest>>
    /\ UNCHANGED viewVars

\* stopServer of restart r: stop_server resolved, detachFromServer is called
RestartStopResolved(r) ==
    /\ restartPhase[r] = "stop_server"
    /\ backend' = IF backend = "none" THEN backend ELSE "stopped"
    /\ detachFromServerCall
    /\ restartPhase' = [restartPhase EXCEPT ![r] = "detach_server"]
    /\ UNCHANGED <<servers, isLoading, storeLogs, nextId, inflight>>
    /\ UNCHANGED <<pageVars, restartStarts, viewVars>>

\* stopServer of restart r: detachFromServer returned, fetchServers is called
RestartDetachResolved(r) ==
    /\ restartPhase[r] = "detach_server"
    /\ fetchServersCall
    /\ restartPhase' = [restartPhase EXCEPT ![r] = "list_servers"]
    /\ UNCHANGED <<servers, backend, logUnlisten, storeIsStreaming, storeLogs,
                   listeners, nextId, inflight, lastStoreRequest>>
    /\ UNCHANGED <<pageVars, restartStarts, viewVars>>

\* stopServer of restart r: list_servers resolved, stopServer makes its last
\* update and returns; handleRestart sets the timer
RestartListResolved(r) ==
    /\ restartPhase[r] = "list_servers"
    /\ servers' = backend
    /\ isLoading' = FALSE
    /\ storeIsStreaming' = FALSE
    /\ restartPhase' = [restartPhase EXCEPT ![r] = "timer"]
    /\ UNCHANGED <<backend, logUnlisten, storeLogs, listeners, nextId, inflight,
                   lastStoreRequest>>
    /\ UNCHANGED <<pageVars, restartStarts, viewVars>>

\* the timer of restart r fires: startServer, up to its await of listen
RestartTimerFires(r) ==
    /\ RestartTimerSet(r)
    /\ InFlight < MaxTasks /\ CanListen
    /\ isLoading' = TRUE
    /\ storeLogs' = 0
    /\ attachToServerCall
    /\ inflight' = Began(inflight, Task("startServer", "listen", 0))
    /\ restartPhase' = [restartPhase EXCEPT ![r] = "started"]
    /\ restartStarts' = [restartStarts EXCEPT ![r] = @ + 1]
    /\ UNCHANGED <<servers, backend, storeIsStreaming, nextId>>
    /\ UNCHANGED <<pageVars, viewVars>>

RestartNext ==
    \/ StartServer
    \/ StoreListenResolved
    \/ StoreAttachResolved
    \/ StartResolved
    \/ StopServer
    \/ StopResolved
    \/ StopDetachResolved
    \/ FetchServers
    \/ \E op \in {"startServer", "stopServer", "fetchServers"} : ListResolved(op)
    \/ \E r \in 1..MaxRestarts : RestartClick(r)
    \/ \E r \in 1..MaxRestarts : RestartStopResolved(r)
    \/ \E r \in 1..MaxRestarts : RestartDetachResolved(r)
    \/ \E r \in 1..MaxRestarts : RestartListResolved(r)
    \/ \E r \in 1..MaxRestarts : RestartTimerFires(r)
    \/ FlushEffects /\ UNCHANGED <<storeVars, viewVars, renderVars, seedVars,
                                   sendVars, restartVars>>

SpecRestart == StoreSpecInit /\ [][RestartNext]_vars

----------------------------------------------------------------------------
\* The escape-sequence interpreter (ConsoleOutput.tsx).  Here a line is the
\* sequence of its characters: "ESC" is \x1b, every other character is
\* itself.

Digits == <<"0", "1", "2", "3", "4", "5", "6", "7", "8", "9">>

IsDigit(ch) == \E d \in 1..Len(Digits) : Digits[d] = ch

DigitValue(ch) == (CHOOSE d \in 1..Len(Digits) : Digits[d] = ch) - 1

\* the characters [0-9;] at the front of s
RECURSIVE CodeRun(_)
CodeRun(s) ==
    IF s # <<>> /\ (IsDigit(Head(s)) \/ Head(s) = ";")
    THEN <<Head(s)>> \o CodeRun(Tail(s))
    ELSE <<>>

\* mutant: the pattern's m is optional, \x1b\[[0-9;]*m?
SgrLengthAtOptionalM(s) ==
    IF Len(s) >= 2 /\ s[1] = "ESC" /\ s[2] = "["
    THEN LET run == Len(CodeRun(SubSeq(s, 3, Len(s))))
         IN IF 3 + run <= Len(s) /\ s[3 + run] = "m" THEN 3 + run ELSE 2 + run
    ELSE 0

\* the length of the match of \x1b\[[0-9;]*m at the front of s, 0 for none
SgrLengthAt(s) ==
    IF Len(s) >= 3 /\ s[1] = "ESC" /\ s[2] = "["
    THEN LET run == Len(CodeRun(SubSeq(s, 3, Len(s))))
         IN IF 3 + run <= Len(s) /\ s[3 + run] = "m" THEN 3 + run ELSE 0
    ELSE 0

From(s, i) == SubSeq(s, i, Len(s))

\* ansiRegex.exec: the start of the first match at or after pos, 0 for null
MatchIndex(s, pos) ==
    LET starts == {i \in pos..Len(s) : SgrLengthAt(From(s, i)) > 0}
    IN IF starts = {} THEN 0
       ELSE CHOOSE i \in starts : \A j \in starts : i <= j

\* str.split(';')
RECURSIVE Split(_)
Split(str) ==
    LET semis == {i \in 1..Len(str) : str[i] = ";"}
        first == CHOOSE i \in semis : \A j \in semis : i <= j
    IN IF semis = {} THEN <<str>>
       ELSE <<SubSeq(str, 1, first - 1)>> \o Split(From(str, first + 1))

\* Number of a run of digits; Number('') is 0
RECURSIVE NumberOf(_)
NumberOf(ds) ==
    IF ds = <<>> THEN 0
    ELSE 10 * NumberOf(SubSeq(ds, 1, Len(ds) - 1)) + DigitValue(ds[Len(ds)])

\* (match[1] || match[2] || '0').split(';').map(Number)
Codes(str) ==
    LET parts == Split(IF str = <<>> THEN <<"0">> ELSE str)
    IN [i \in 1..Len(parts) |-> NumberOf(parts[i])]

Foreground == (30..37) \cup (90..97)

Background == 40..47

\* ANSI_COLORS[code], as the kind of class (text- or bg-) and the code
ColorClass(code) == <<IF code \in Foreground THEN "text" ELSE "bg", code>>

DefaultStyle ==
    [classes |-> <<>>, bold |-> FALSE, dim |-> FALSE, italic |-> FALSE,
     underline |-> FALSE]

\* mutant: code 0 clears the flags and keeps the colours
ApplyCodeKeepsColours(st, code) ==
    IF code = 0 THEN [DefaultStyle EXCEPT !.classes = st.classes]
    ELSE IF code = 1 THEN [st EXCEPT !.bold = TRUE]
    ELSE IF code = 2 THEN [st EXCEPT !.dim = TRUE]
    ELSE IF code = 3 THEN [st EXCEPT !.italic = TRUE]
    ELSE IF code = 4 THEN [st EXCEPT !.underline = TRUE]
    ELSE IF code = 22 THEN [st EXCEPT !.bold = FALSE, !.dim = FALSE]
    ELSE IF code = 23 THEN [st EXCEPT !.italic = FALSE]
    ELSE IF code = 24 THEN [st EXCEPT !.underline = FALSE]
    ELSE IF code \in Foreground
    THEN [st EXCEPT !.classes =
              Append(SelectSeq(@, LAMBDA c : c[1] # "text"), ColorClass(code))]
    ELSE IF code \in Background
    THEN [st EXCEPT !.classes =
              Append(SelectSeq(@, LAMBDA c : c[1] # "bg"), ColorClass(code))]
    ELSE st

\* mutant: a colour is pushed without filtering the classes of its kind
ApplyCodeStacksColours(st, code) ==
    IF code = 0 THEN DefaultStyle
    ELSE IF code = 1 THEN [st EXCEPT !.bold = TRUE]
    ELSE IF code = 2 THEN [st EXCEPT !.dim = TRUE]
    ELSE IF code = 3 THEN [st EXCEPT !.italic = TRUE]
    ELSE IF code = 4 THEN [st EXCEPT !.underline = TRUE]
    ELSE IF code = 22 THEN [st EXCEPT !.bold = FALSE, !.dim = FALSE]
    ELSE IF code = 23 THEN [st EXCEPT !.italic = FALSE]
    ELSE IF code = 24 THEN [st EXCEPT !.underline = FALSE]
    ELSE IF code \in Foreground \cup Background
    THEN [st EXCEPT !.classes = Append(@, ColorClass(code))]
    ELSE st

ApplyCode(st, code) ==
    IF code = 0 THEN DefaultStyle
    ELSE IF code = 1 THEN [st EXCEPT !.bold = TRUE]
    ELSE IF code = 2 THEN [st EXCEPT !.dim = TRUE]
    ELSE IF code = 3 THEN [st EXCEPT !.italic = TRUE]
    ELSE IF code = 4 THEN [st EXCEPT !.underline = TRUE]
    ELSE IF code = 22 THEN [st EXCEPT !.bold = FALSE, !.dim = FALSE]
    ELSE IF code = 23 THEN [st EXCEPT !.italic = FALSE]
    ELSE IF code = 24 THEN [st EXCEPT !.underline = FALSE]
    ELSE IF code \in Foreground
    THEN [st EXCEPT !.classes =
              Append(SelectSeq(@, LAMBDA c : c[1] # "text"), ColorClass(code))]
    ELSE IF code \in Background
    THEN [st EXCEPT !.classes =
              Append(SelectSeq(@, LAMBDA c : c[1] # "bg"), ColorClass(code))]
    ELSE st

\* for (const code of codes)
RECURSIVE ApplyCodes(_, _)
ApplyCodes(st, codes) ==
    IF codes = <<>> THEN st
    ELSE ApplyCodes(ApplyCode(st, Head(codes)), Tail(codes))

Segment(text, st) ==
    [text |-> text, classes |-> st.classes, bold |-> st.bold, dim |-> st.dim,
     italic |-> st.italic, underline |-> st.underline]

\* the while loop over the matches, then the text after the last one; pos
\* is lastIndex + 1
RECURSIVE ParseLoop(_, _, _, _)
ParseLoop(input, pos, st, segs) ==
    LET index == MatchIndex(input, pos)
        length == SgrLengthAt(From(input, index))
    IN IF index = 0
       THEN IF pos <= Len(input)
            THEN Append(segs, Segment(From(input, pos), st))
            ELSE segs
       ELSE ParseLoop(input, index + length,
                      ApplyCodes(st, Codes(SubSeq(input, index + 2,
                                                  index + length - 2))),
                      IF index > pos
                      THEN Append(segs, Segment(SubSeq(input, pos, index - 1), st))
                      ELSE segs)

parseAnsi(input) ==
    LET segs == ParseLoop(input, 1, DefaultStyle, <<>>)
    IN IF Len(segs) > 0 THEN segs
       ELSE <<Segment(input, DefaultStyle)>>

\* line.replace(/\x1b\[[0-9;]*m/g, '') (ServerDetail.tsx:221)
RECURSIVE StripSgr(_)
StripSgr(s) ==
    IF s = <<>> THEN <<>>
    ELSE IF SgrLengthAt(s) > 0 THEN StripSgr(From(s, SgrLengthAt(s) + 1))
    ELSE <<Head(s)>> \o StripSgr(Tail(s))

\* the pieces the lines given to the interpreter are made of: text, a
\* colour, a reset, a marker without codes, two codes with an empty one
\* between, a reset followed by a colour in one marker, and a marker that
\* lacks its m
AnsiPieces ==
    {<<"a">>,
     <<"ESC", "[", "3", "1", "m">>,
     <<"ESC", "[", "0", "m">>,
     <<"ESC", "[", "m">>,
     <<"ESC", "[", "1", ";", ";", "4", "2", "m">>,
     <<"ESC", "[", "0", ";", "3", "1", "m">>,
     <<"ESC", "[", "3", "1">>}

RECURSIVE Flatten(_)
Flatten(ps) == IF ps = <<>> THEN <<>> ELSE Head(ps) \o Flatten(Tail(ps))

AnsiLines == {Flatten(ps) : ps \in UNION {[1..n -> AnsiPieces] : n \in 1..MaxPieces}}

UpperCase == <<"A", "B", "C", "D", "E", "F", "G", "H", "I", "J", "K", "L", "M",
               "N", "O", "P", "Q", "R", "S", "T", "U", "V", "W", "X", "Y", "Z">>

LowerCase == <<"a", "b", "c", "d", "e", "f", "g", "h", "i", "j", "k", "l", "m",
               "n", "o", "p", "q", "r", "s", "t", "u", "v", "w", "x", "y", "z">>

\* String.prototype.toLowerCase, on the characters of the lines
toLowerCase(s) ==
    [i \in 1..Len(s) |->
        IF \E n \in 1..26 : UpperCase[n] = s[i]
        THEN LowerCase[CHOOSE n \in 1..26 : UpperCase[n] = s[i]]
        ELSE s[i]]

\* \w: a letter, a digit or _
IsWordChar(ch) ==
    \/ \E n \in 1..26 : UpperCase[n] = ch \/ LowerCase[n] = ch
    \/ IsDigit(ch)
    \/ ch = "_"

\* the places of s where the text pat stands
Occurs(s, pat) ==
    {i \in 1..(Len(s) - Len(pat) + 1) : SubSeq(s, i, i + Len(pat) - 1) = pat}

\* /\bpat\b/.test(s), for a pat of word characters
TestWord(s, pat) ==
    \E i \in Occurs(s, pat) :
        /\ i = 1 \/ ~IsWordChar(s[i - 1])
        /\ i + Len(pat) > Len(s) \/ ~IsWordChar(s[i + Len(pat)])

\* /\[pat\]/.test(s)
TestBracketed(s, pat) == Occurs(s, <<"[">> \o pat \o <<"]">>) # {}

TextError == <<"e", "r", "r", "o", "r">>

TextException == <<"e", "x", "c", "e", "p", "t", "i", "o", "n">>

TextWarn == <<"w", "a", "r", "n">>

TextWarning == <<"w", "a", "r", "n", "i", "n", "g">>

TextDebug == <<"d", "e", "b", "u", "g">>

ErrorStyle ==
    [className |-> "text-red-400", lineClass |-> "bg-red-950/20 border-l-red-500"]

WarningStyle ==
    [className |-> "text-yellow-400",
     lineClass |-> "bg-yellow-950/10 border-l-yellow-500"]

DebugStyle == [className |-> "text-zinc-500", lineClass |-> ""]

NoStyle == [className |-> "", lineClass |-> ""]

\* mutant: the warning rule is tried before the error rule
getLogLevelStyleWarningFirst(line) ==
    LET lowerLine == toLowerCase(line)
    IN IF \/ TestWord(lowerLine, TextWarn) \/ TestWord(lowerLine, TextWarning)
          \/ TestBracketed(lowerLine, TextWarn)
          \/ TestBracketed(lowerLine, TextWarning)
       THEN WarningStyle
       ELSE IF \/ TestWord(lowerLine, TextError)
               \/ TestBracketed(lowerLine, TextError)
               \/ Occurs(toLowerCase(line), TextException) # {}
       THEN ErrorStyle
       ELSE IF TestWord(lowerLine, TextDebug) \/ TestBracketed(lowerLine, TextDebug)
       THEN DebugStyle
       ELSE NoStyle

\* "Detect log level and return appropriate styling"; /exception/i tests
\* the line itself, ignoring case
getLogLevelStyle(line) ==
    LET lowerLine == toLowerCase(line)
    IN IF \/ TestWord(lowerLine, TextError)
          \/ TestBracketed(lowerLine, TextError)
          \/ Occurs(toLowerCase(line), TextException) # {}
       THEN ErrorStyle
       ELSE IF \/ TestWord(lowerLine, TextWarn) \/ TestWord(lowerLine, TextWarning)
               \/ TestBracketed(lowerLine, TextWarn)
               \/ TestBracketed(lowerLine, TextWarning)
       THEN WarningStyle
       ELSE IF TestWord(lowerLine, TextDebug) \/ TestBracketed(lowerLine, TextDebug)
       THEN DebugStyle
       ELSE NoStyle

\* /\x1b\[|\u001b\[/.test(line)
hasAnsi(line) == Occurs(line, <<"ESC", "[">>) # {}

\* line.startsWith('> ')
isCommand(line) == Len(line) >= 2 /\ line[1] = ">" /\ line[2] = " "

CommandClass == "bg-indigo-950/20 border-l-indigo-500"

\* mutant: the echo hint is given only to a line that has no severity hint
ConsoleLineKeepsSeverity(line) ==
    LET style == getLogLevelStyle(line)
        levelClass == IF hasAnsi(line) THEN "" ELSE style.lineClass
    IN [segments |->
            IF hasAnsi(line) THEN parseAnsi(line)
            ELSE <<[Segment(line, DefaultStyle) EXCEPT !.classes =
                        IF style.className # "" THEN <<style.className>> ELSE <<>>]>>,
        lineClass |-> IF isCommand(line) /\ levelClass = ""
                      THEN CommandClass ELSE levelClass]

\* ConsoleLine: the segments and the lineClass of the line's element
ConsoleLine(line) ==
    LET style == getLogLevelStyle(line)
    IN [segments |->
            IF hasAnsi(line) THEN parseAnsi(line)
            ELSE <<[Segment(line, DefaultStyle) EXCEPT !.classes =
                        IF style.className # "" THEN <<style.className>> ELSE <<>>]>>,
        lineClass |-> IF isCommand(line) THEN CommandClass
                      ELSE IF hasAnsi(line) THEN "" ELSE style.lineClass]

\* ConsoleLine renders the line
ParseLine ==
    /\ ~parsed
    /\ segments' = ConsoleLine(rawLine).segments
    /\ lineClass' = ConsoleLine(rawLine).lineClass
    /\ parsed' = TRUE
    /\ UNCHANGED rawLine

AnsiInit ==
    /\ ConsoleInit /\ status = "running"
    /\ StoreInit
    /\ SeedIdle
    /\ SendIdle
    /\ RestartIdle
    /\ rawLine \in AnsiLines
    /\ segments = <<>>
    /\ parsed = FALSE
    /\ lineClass = ""

AnsiNext ==
    /\ ParseLine
    /\ UNCHANGED <<status, logs, isStreaming, autoScroll, userScrolledRef,
                   lastLogCountRef, oauthUrl, oauthCode, oauthDismissed,
                   prevStatusRef, scrollTop, effectDeps, sinceDismiss,
                   command, commandHistory, historyIndex, inputHistory>>
    /\ UNCHANGED <<storeVars, viewVars, seedVars, sendVars, restartVars>>

SpecAnsi == AnsiInit /\ [][AnsiNext]_vars

\* The colour specification: lines whose markers set colours and flags and
\* never reset them: two foregrounds, two backgrounds (one with bold in the
\* same marker), and a code that is not in ANSI_COLORS
StylePieces ==
    {<<"a">>,
     <<"ESC", "[", "3", "1", "m">>,
     <<"ESC", "[", "9", "2", "m">>,
     <<"ESC", "[", "4", "2", "m">>,
     <<"ESC", "[", "1", ";", "4", "5", "m">>,
     <<"ESC", "[", "5", "m">>}

StyleLines == {Flatten(ps) : ps \in UNION {[1..n -> StylePieces] : n \in 1..MaxPieces}}

StyleInit ==
    /\ ConsoleInit /\ status = "running"
    /\ StoreInit
    /\ SeedIdle
    /\ SendIdle
    /\ RestartIdle
    /\ rawLine \in StyleLines
    /\ segments = <<>>
    /\ parsed = FALSE
    /\ lineClass = ""

SpecStyle == StyleInit /\ [][AnsiNext]_vars

\* The classifier specification: lines of words separated by one space, in
\* either case, with the echo prefix and with a colour marker among them
LevelPieces ==
    {<<"e", "r", "r", "o", "r">>,
     <<"E", "R", "R", "O", "R">>,
     <<"e", "r", "r", "o", "r", "s">>,
     <<"E", "x", "c", "e", "p", "t", "i", "o", "n", "s">>,
     <<"W", "a", "r", "n">>,
     <<"w", "a", "r", "n", "i", "n", "g">>,
     <<"[", "D", "e", "b", "u", "g", "]">>,
     <<"d", "e", "b", "u", "g">>,
     <<">">>,
     <<"ESC", "[", "3", "1", "m">>}

\* the words with one space between them
RECURSIVE Join(_)
Join(ps) ==
    IF Len(ps) = 1 THEN Head(ps) ELSE Head(ps) \o <<" ">> \o Join(Tail(ps))

LevelLines == {Join(ps) : ps \in UNION {[1..n -> LevelPieces] : n \in 1..MaxWords}}

LevelInit ==
    /\ ConsoleInit /\ status = "running"
    /\ StoreInit
    /\ SeedIdle
    /\ SendIdle
    /\ RestartIdle
    /\ rawLine \in LevelLines
    /\ segments = <<>>
    /\ parsed = FALSE
    /\ lineClass = ""

SpecLevel == LevelInit /\ [][AnsiNext]_vars

----------------------------------------------------------------------------
\* The seeding specification: the main initialization effect of ServerDetail
\* has just run for a running server, so get_server_logs has been invoked
\* (fetchInitialLogs) and listen is awaited (setupStreaming).  The server
\* writes lines; the supervisor answers the fetch with the lines written so
\* far and emits each new line as a 'server-log' event; the events of every
\* server reach every registered listener.

\* a 'server-log' event of another server
ForeignEvent == [server_id |-> "s2", line |-> <<"x">>]

HistoryLine == <<"h">>

\* the k-th line the server writes after the mount
WrittenLine(k) == <<Digits[k + 1]>>

\* setupStreaming: listen resolved, the listener is registered
SeedListenResolved ==
    /\ subscription = "listening"
    /\ subscription' = "registered"
    /\ UNCHANGED <<serverLog, fetch, response, events, delivered>>
    /\ UNCHANGED <<status, logs, isStreaming, autoScroll, userScrolledRef,
                   lastLogCountRef, oauthUrl, oauthCode, oauthDismissed,
                   prevStatusRef, scrollTop, effectDeps, sinceDismiss,
                   command, commandHistory, historyIndex, inputHistory>>

\* the server writes a line; the supervisor emits it, and an event with no
\* listener registered reaches nobody
ServerWrites ==
    LET k == Len(SelectSeq(serverLog, LAMBDA l : l # HistoryLine)) + 1
    IN /\ k <= MaxWrites
       /\ serverLog' = Append(serverLog, WrittenLine(k))
       /\ events' = IF subscription = "registered"
                    THEN Append(events, [server_id |-> AttachedId,
                                         line |-> WrittenLine(k)])
                    ELSE events
       /\ UNCHANGED <<fetch, response, subscription, delivered>>
       /\ UNCHANGED <<status, logs, isStreaming, autoScroll, userScrolledRef,
                      lastLogCountRef, oauthUrl, oauthCode, oauthDismissed,
                      prevStatusRef, scrollTop, effectDeps, sinceDismiss,
                      command, commandHistory, historyIndex, inputHistory>>

\* the supervisor answers get_server_logs with the lines written so far
FetchAnswered ==
    /\ fetch = "called"
    /\ fetch' = "answered"
    /\ response' = serverLog
    /\ UNCHANGED <<serverLog, subscription, events, delivered>>
    /\ UNCHANGED <<status, logs, isStreaming, autoScroll, userScrolledRef,
                   lastLogCountRef, oauthUrl, oauthCode, oauthDismissed,
                   prevStatusRef, scrollTop, effectDeps, sinceDismiss,
                   command, commandHistory, historyIndex, inputHistory>>

\* fetchInitialLogs: the await resolved, setLogs(response.logs)
FetchResolved ==
    /\ ~Pending
    /\ fetch = "answered"
    /\ fetch' = "done"
    /\ Commit([Cur EXCEPT !.logs = response])
    /\ UNCHANGED <<serverLog, response, subscription, events, delivered>>
    /\ UNCHANGED <<effectDeps, sinceDismiss, inputHistory>>

\* mutant: the failed fetch gives the subscription up
FetchFailedDropsListen ==
    /\ fetch = "called"
    /\ fetch' = "failed"
    /\ subscription' = "none"
    /\ UNCHANGED <<serverLog, response, events, delivered>>
    /\ UNCHANGED <<status, logs, isStreaming, autoScroll, userScrolledRef,
                   lastLogCountRef, oauthUrl, oauthCode, oauthDismissed,
                   prevStatusRef, scrollTop, effectDeps, sinceDismiss,
                   command, commandHistory, historyIndex, inputHistory>>

\* fetchInitialLogs: get_server_logs rejects, the catch logs the failure
FetchFailed ==
    /\ fetch = "called"
    /\ fetch' = "failed"
    /\ UNCHANGED <<serverLog, response, subscription, events, delivered>>
    /\ UNCHANGED <<status, logs, isStreaming, autoScroll, userScrolledRef,
                   lastLogCountRef, oauthUrl, oauthCode, oauthDismissed,
                   prevStatusRef, scrollTop, effectDeps, sinceDismiss,
                   command, commandHistory, historyIndex, inputHistory>>

\* another server writes a line while the listener is registered
ForeignWrites ==
    /\ subscription = "registered"
    /\ Len(events) < MaxWrites
    /\ events' = Append(events, ForeignEvent)
    /\ UNCHANGED <<serverLog, fetch, response, subscription, delivered>>
    /\ UNCHANGED <<status, logs, isStreaming, autoScroll, userScrolledRef,
                   lastLogCountRef, oauthUrl, oauthCode, oauthDismissed,
                   prevStatusRef, scrollTop, effectDeps, sinceDismiss,
                   command, commandHistory, historyIndex, inputHistory>>

\* mutant: the listener appends the line of every event
listenerNoFilter(c, event) == appendLines(c, <<event.line>>)

\* the callback given to listen:
\* if (event.payload.server_id === id) setLogs(prev => [...prev, line])
listener(c, event) ==
    IF event.server_id = AttachedId THEN appendLines(c, <<event.line>>) ELSE c

\* the listener is called with the next event
EventDelivered ==
    LET c1 == listener(Cur, Head(events)) IN
    /\ events # <<>>
    /\ ~Pending
    /\ Len(c1.logs) <= MaxSeedLogs
    /\ Commit(c1)
    /\ events' = Tail(events)
    /\ delivered' = IF Head(events).server_id = AttachedId
                    THEN Append(delivered, Head(events).line) ELSE delivered
    /\ UNCHANGED <<serverLog, fetch, response, subscription>>
    /\ UNCHANGED <<effectDeps, sinceDismiss, inputHistory>>

SeedInit ==
    /\ ConsoleInit /\ status = "running"
    /\ StoreInit
    /\ RenderInit
    /\ SendIdle
    /\ RestartIdle
    /\ serverLog \in {<<>>, <<HistoryLine>>}
    /\ fetch = "called"
    /\ response = <<>>
    /\ subscription = "listening"
    /\ events = <<>>
    /\ delivered = <<>>

SeedNext ==
    /\ \/ SeedListenResolved
       \/ ServerWrites
       \/ ForeignWrites
       \/ FetchAnswered
       \/ FetchResolved
       \/ FetchFailed
       \/ EventDelivered
       \/ FlushEffects /\ UNCHANGED seedVars
    /\ UNCHANGED <<storeVars, viewVars, renderVars, sendVars, restartVars>>

SpecSeed == SeedInit /\ [][SeedNext]_vars

----------------------------------------------------------------------------
\* Properties of the console

Pinned == autoScroll /\ ~userScrolledRef

Unpinned == ~autoScroll /\ userScrolledRef

\* a step in which the effects of the last render run
FlushStep == effectDeps' # effectDeps

\* the render whose effects are due appended lines to the buffer
Grew ==
    /\ Len(logs) > effectDeps.len
    /\ SubSeq(logs, 1, effectDeps.len) = effectDeps.logs

\* a step that appends streamed lines
Appended ==
    /\ Len(logs') > Len(logs)
    /\ SubSeq(logs', 1, Len(logs)) = logs
    /\ effectDeps' = effectDeps

\* the lines of the buffer the detection scans: the last ScanWindow ones
InWindow(l, i) == i \in 1..Len(l) /\ i > Len(l) - ScanWindow

Matches(line) == urlMatch(cleanLine(line)) # NoMatch

\* C1: while Pinned, the effects of every render that appended lines (one
\* line or a burst) leave the viewport at the newest line, at once.
C1_PinnedFollowsAppends ==
    [][(FlushStep /\ Pinned /\ Grew) => scrollTop' = MaxScrollTop(logs')]_vars

\* a burst has been rendered under a pinned viewport that is now behind
C1_Witness ==
    /\ Pinned /\ Pending /\ Grew
    /\ Len(logs) >= effectDeps.len + MaxBurst
    /\ scrollTop < MaxScrollTop(logs)

\* C2: while Unpinned, an append and the effects that follow it leave the
\* scroll offset where it is and the state Unpinned.
C2_UnpinnedIgnoresAppends ==
    [][(Unpinned /\ (Appended \/ (FlushEffects /\ Grew)))
          => (scrollTop' = scrollTop /\ ~autoScroll' /\ userScrolledRef')]_vars

\* the user scrolled away, lines were appended, their effects are due
C2_Witness ==
    /\ Unpinned /\ Pending /\ Grew
    /\ ~isAtBottom(logs, scrollTop)

\* C3: a scroll event unpins only from a position 50 or more units from the
\* bottom and with the buffer length equal to the recorded one; away from
\* the bottom with a different length it leaves the state Pinned.
C3_UnpinOnlyOnUserScroll ==
    [][\A p \in Positions(logs) :
          (ScrollEvent(p) /\ Pinned) =>
              /\ ~Pinned' =>
                    /\ ScrollHeight(logs) - p - ClientHeight >= BottomTolerance
                    /\ lastLogCountRef = Len(logs)
              /\ (~isAtBottom(logs, p) /\ lastLogCountRef # Len(logs)) => Pinned']_vars

\* content grew under a pinned viewport: away from the bottom, length stale
C3_Witness ==
    /\ Pinned
    /\ lastLogCountRef # Len(logs)
    /\ ~isAtBottom(logs, scrollTop)

\* C4: the effects of the render that sees the status go from running to
\* stopped empty the buffer, clear an active detection (URL and code) and
\* leave dismissed false.
C4_RunningToStoppedClears ==
    [][(FlushStep /\ prevStatusRef = "running" /\ status = "stopped")
          => /\ logs' = <<>>
             /\ oauthUrl' = Null
             /\ (oauthUrl # Null => oauthCode' = Null)
             /\ ~oauthDismissed']_vars

\* running to stopped with lines in the buffer and a detection on show
C4_Witness ==
    /\ prevStatusRef = "running" /\ status = "stopped"
    /\ logs # <<>>
    /\ oauthUrl # Null /\ oauthCode # Null

\* C5 (as claimed): when the status is observed as stopped after the user
\* pressed Stop, the buffer is emptied, whether stopped is observed right
\* after running or after an observed stopping.
C5_StopEmptiesBuffer ==
    [][(/\ FlushStep
        /\ status = "stopped" /\ prevStatusRef \in {"running", "stopping"}
        /\ \E i \in 1..Len(logs) : logs[i] = StoppingLine)
          => logs' = <<>>]_vars

\* C9: a latched URL and code are not altered by an append nor by the
\* effects that follow it.
C9_LatchSurvivesAppends ==
    [][(oauthUrl # Null /\ (Appended \/ (FlushStep /\ Grew)))
          => (oauthUrl' = oauthUrl /\ oauthCode' = oauthCode)]_vars

\* code A is latched and the newest line carries the URL with code B
C9_Witness ==
    /\ ~Pending
    /\ oauthCode = <<"A">>
    /\ logs # <<>>
    /\ urlMatch(cleanLine(logs[Len(logs)])).code = <<"B">>

\* C8: the effects of a render that appended lines to a non-terminal
\* session with no detection and dismissed false latch a detection if and
\* only if one of the last 30 lines matches the URL pattern.
C8_DetectsIffInWindow ==
    [][(/\ FlushStep /\ Grew
        /\ status \notin Terminal /\ oauthUrl = Null /\ ~oauthDismissed)
          => (oauthUrl' # Null <=> \E i \in 1..Len(logs) :
                                      InWindow(logs, i) /\ Matches(logs[i]))]_vars

\* the effects ran and latched nothing: the only URL of the buffer is in a
\* line older than the last 30
C8_Witness ==
    /\ ~Pending
    /\ status \notin Terminal /\ oauthUrl = Null /\ ~oauthDismissed
    /\ \E i \in 1..Len(logs) : Matches(logs[i]) /\ ~InWindow(logs, i)

\* C10 (as claimed): after a dismissal no detection is active until the
\* session next enters a terminal state.
C10_NoDetectionAfterDismiss ==
    sinceDismiss \in {"dismissed", "cleared"} => oauthUrl = Null

\* C10 (amended): after a dismissal no detection is active until the
\* session next enters a terminal state or the user clears the console.
C10_NoDetectionUntilTerminalOrClear ==
    sinceDismiss = "dismissed" => oauthUrl = Null

\* dismissed, effects run, and a matching line is in the scanned window
C10_Witness ==
    /\ sinceDismiss = "dismissed" /\ ~Pending
    /\ status \notin Terminal
    /\ \E i \in 1..Len(logs) : InWindow(logs, i) /\ Matches(logs[i])

\* C11 (as claimed): the effects of the render that sees the status enter
\* stopped or error, from any status and dismissed or not, leave the URL
\* and the code absent and dismissed false.
C11_TerminalClearsDetection ==
    [][(FlushStep /\ status \in Terminal /\ effectDeps.status # status)
          => (oauthUrl' = Null /\ oauthCode' = Null /\ ~oauthDismissed')]_vars


\* the line, stripped, holds the URL text followed at once by an
\* alphanumeric character
HasCompleteUrl(line) ==
    LET s == cleanLine(line)
    IN \E j \in 1..(Len(s) - 1) : s[j] = "URL" /\ s[j + 1] \in Alnum

\* C12: a detection becomes active only if one line of the scanned window,
\* stripped, holds the complete URL with a non-empty alphanumeric value; the
\* URL cut across two lines, or without a value, is never detected.
C12_DetectsOnlyCompleteUrl ==
    [][(oauthUrl = Null /\ oauthUrl' # Null)
          => /\ \E i \in 1..Len(logs) : InWindow(logs, i) /\ HasCompleteUrl(logs[i])
             /\ oauthCode' # <<>>
             /\ oauthUrl' = <<"URL">> \o oauthCode']_vars

\* the effects ran on a buffer that holds the URL cut before its value and
\* the URL without a value, and no line with the complete URL
C12_Witness ==
    /\ ~Pending
    /\ status \notin Terminal /\ ~oauthDismissed /\ oauthUrl = Null
    /\ \E i \in 1..(Len(logs) - 1) : logs[i] = UrlHeadLine /\ logs[i + 1] = CodeLine
    /\ \E i \in 1..Len(logs) : logs[i] = EmptyCodeLine

\* C23: a scroll event to a position less than 50 units from the bottom
\* leaves the scroll state Pinned, whether it was Pinned or Unpinned and
\* whether or not the buffer length is the one the last auto-scroll pass
\* recorded.
C23_ScrollToBottomPins ==
    [][\A p \in Positions(logs) :
          (ScrollEvent(p) /\ ScrollHeight(logs) - p - ClientHeight < BottomTolerance)
              => Pinned']_vars

\* Unpinned and away from the bottom, with lines appended since the last
\* auto-scroll pass
C23_Witness ==
    /\ Unpinned
    /\ ~isAtBottom(logs, scrollTop)
    /\ lastLogCountRef # Len(logs)

\* the Bottom button is rendered
BottomOffered == ~autoScroll

\* C24: the Bottom button is offered exactly when the scroll state is
\* Unpinned; pressing it leaves the state Pinned and the viewport at the
\* newest line at once; and the effects of a render that then appends
\* lines under the Pinned state move the viewport to the newest line.
C24_BottomButtonRepins ==
    /\ [](BottomOffered <=> Unpinned)
    /\ [][/\ BottomClick => (Pinned' /\ scrollTop' = MaxScrollTop(logs'))
          /\ (FlushStep /\ Grew /\ Pinned)
                => (Pinned' /\ scrollTop' = MaxScrollTop(logs'))]_vars

\* the state Bottom leaves behind when pressed far from the bottom: the
\* flag just turned on, its effects due, the viewport at the newest line
C24_Witness ==
    /\ Pinned /\ Pending
    /\ ~effectDeps.autoScroll
    /\ lastLogCountRef = Len(logs)
    /\ Len(logs) >= 4
    /\ scrollTop = MaxScrollTop(logs)

\* C25: while the rendered status is stopped or error no step turns an
\* absent detection into an active one, whatever lines are in the scanned
\* window or are appended to it.
C25_NoDetectionWhileTerminal ==
    [][(status \in Terminal /\ oauthUrl = Null) => oauthUrl' = Null]_vars

\* stopped, no detection, and the newest line carries the URL and a code:
\* it was appended after the status was seen to be stopped, and the
\* effects have run on it
C25_Witness ==
    /\ ~Pending
    /\ status = "stopped" /\ prevStatusRef = "stopped"
    /\ oauthUrl = Null
    /\ logs # <<>> /\ Matches(logs[Len(logs)])

\* the newest line of the scanned window that matches the pattern
NewestMatch(l) ==
    CHOOSE i \in 1..Len(l) :
        /\ InWindow(l, i) /\ Matches(l[i])
        /\ \A j \in (i + 1)..Len(l) : ~Matches(l[j])

\* C26: the URL and the code a scan latches are those of the newest
\* matching line of the window, and the code is the value of that URL.
C26_NewestMatchWins ==
    [][(oauthUrl = Null /\ oauthUrl' # Null) =>
          /\ \E i \in 1..Len(logs) : InWindow(logs, i) /\ Matches(logs[i])
          /\ oauthUrl' = urlMatch(cleanLine(logs[NewestMatch(logs)])).url
          /\ oauthCode' = urlMatch(cleanLine(logs[NewestMatch(logs)])).code
          /\ oauthUrl' = <<"URL">> \o oauthCode']_vars

\* code B is latched from the newest line while an older line of the
\* buffer carries the URL with code A: both were there when the scan ran
C26_Witness ==
    /\ ~Pending
    /\ oauthUrl = <<"URL", "B">> /\ oauthCode = <<"B">>
    /\ Len(logs) >= 2
    /\ logs[Len(logs)] = SgrUrlLine("B")
    /\ \E i \in 1..(Len(logs) - 1) : logs[i] = UrlLine("A")

----------------------------------------------------------------------------
\* Properties of the buffer and of the command input

IsPrefix(s, u) == Len(s) <= Len(u) /\ SubSeq(u, 1, Len(s)) = s

Range(s) == {s[i] : i \in 1..Len(s)}

NoDuplicates(s) == \A i, j \in 1..Len(s) : s[i] = s[j] => i = j

\* C14: a streamed append, a command echo, a scroll event, a detection
\* scan and every other step but Clear keep each line of the buffer at its
\* index and add at most one line, at the end.
C14_AppendOnlyBetweenResets ==
    [][ClearClick \/ (IsPrefix(logs, logs') /\ Len(logs') <= Len(logs) + 1)]_vars

\* a streamed line, then the echo of a command, and the scan has run
C14_Witness ==
    /\ ~Pending
    /\ Len(logs) = 2
    /\ logs[1] \in ConsoleLines
    /\ logs[2] = Echo(<<"A">>)

\* C15 (as claimed): right after Clear the buffer is empty, the scroll
\* state Pinned, the command history empty with cursor -1, no detection is
\* active and dismissed is false.
C15_ClearDestroysSession ==
    [][ClearClick =>
          /\ logs' = <<>>
          /\ Pinned'
          /\ commandHistory' = <<>> /\ historyIndex' = -1
          /\ oauthUrl' = Null /\ oauthCode' = Null /\ ~oauthDismissed']_vars

\* C15 (amended): right after Clear the buffer is empty, the scroll state
\* Pinned, no detection is active and dismissed is false; the command
\* history and its cursor are as they were.
C15_ClearKeepsHistory ==
    [][ClearClick =>
          /\ logs' = <<>>
          /\ Pinned'
          /\ commandHistory' = commandHistory /\ historyIndex' = historyIndex
          /\ oauthUrl' = Null /\ oauthCode' = Null /\ ~oauthDismissed']_vars

\* Clear was pressed after a detection was dismissed, with commands in the
\* history and the cursor on one of them
C15_Witness ==
    /\ sinceDismiss = "cleared"
    /\ logs = <<>> /\ Pinned
    /\ commandHistory # <<>> /\ historyIndex >= 0

\* C16: submitting a command that is in the history keeps the history's
\* length and entries and puts the command last; after every non-empty
\* submit the history has no two equal entries and the cursor is -1.
C16_SubmitDedups ==
    [][(SubmitCommand(MaxInputLogs) /\ Trim(command) # <<>>) =>
          /\ Trim(command) \in Range(commandHistory) =>
                /\ Len(commandHistory') = Len(commandHistory)
                /\ Range(commandHistory') = Range(commandHistory)
          /\ commandHistory'[Len(commandHistory')] = Trim(command)
          /\ NoDuplicates(commandHistory')
          /\ historyIndex' = -1]_vars

\* the same command was submitted twice in a row, with another in the history
C16_Witness ==
    /\ lastInput = "submit"
    /\ Len(logs) = 2 /\ logs[1] = logs[2]
    /\ Len(commandHistory) >= 2
    /\ logs[2] = Echo(commandHistory[Len(commandHistory)])

\* C17: submitting a text that is empty after trimming changes neither the
\* history, the cursor, the buffer nor the input text, and dispatches nothing.
C17_EmptySubmitIsNoOp ==
    [][(SubmitCommand(MaxInputLogs) /\ Trim(command) = <<>>) =>
          UNCHANGED <<commandHistory, historyIndex, logs, command, dispatched>>]_vars

\* white space was submitted, with commands in the history
C17_Witness ==
    /\ lastInput = "submit"
    /\ command = <<" ">>
    /\ commandHistory # <<>>

\* C18: from the M-th ArrowUp in a row on, with M the size of the history,
\* the cursor is on the oldest entry and the input shows it.
C18_RecallPreviousStabilizes ==
    (lastInput = "up" /\ Len(commandHistory) >= 1 /\ upRun >= Len(commandHistory))
        => /\ historyIndex = Len(commandHistory) - 1
           /\ command = commandHistory[1]

\* more ArrowUps in a row than the history has entries
C18_Witness ==
    /\ lastInput = "up"
    /\ Len(commandHistory) >= 2
    /\ upRun > Len(commandHistory)

\* C19: ArrowDown moves the cursor one step toward the end and shows the
\* command there; from the newest entry, or from -1, it sets the cursor to
\* -1 and empties the input.
C19_RecallNext ==
    [][ArrowDown =>
          IF historyIndex > 0
          THEN /\ historyIndex' = historyIndex - 1
               /\ command' = commandHistory[Len(commandHistory) - historyIndex']
          ELSE /\ historyIndex' = -1
               /\ command' = <<>>]_vars

\* ArrowDown left the cursor at -1 and the input empty, the history not
C19_Witness ==
    /\ lastInput = "down"
    /\ historyIndex = -1 /\ command = <<>>
    /\ Len(commandHistory) >= 2

\* a step that submits a command that is not empty
NonEmptySubmit == SendSubmit /\ Trim(command) # <<>>

\* C29: a non-empty submit appends one line, "> " and the trimmed command,
\* at the end of the buffer and makes one send_command call, for the
\* attached server with the trimmed command; no other step makes a call.
C29_SubmitEchoesAndSendsOnce ==
    [][/\ NonEmptySubmit =>
             /\ logs' = Append(logs, Echo(Trim(command)))
             /\ sending' = Append(sending, Call(AttachedId, Trim(command)))
             /\ invoked' = invoked + 1
       /\ (invoked' # invoked \/ Len(sending') > Len(sending)) => NonEmptySubmit]_vars

\* two submits, the second typed with white space around it; both calls
\* are in flight
C29_Witness ==
    /\ submitted = 2 /\ invoked = 2
    /\ Len(sending) = 2 /\ sending[2] = Call(AttachedId, <<"B">>)
    /\ Len(logs) = 2 /\ logs[2] = Echo(<<"B">>)

\* C30: a send_command call that fails sets the store's error and is
\* over: the call is no longer in flight, no call is made for it again
\* (there are as many calls as non-empty submits), the history, its
\* cursor, the buffer and the input are as the submit left them, and the
\* input goes on taking text.
C30_FailedSendIsNotRetried ==
    /\ [](invoked = submitted)
    /\ []((error # Null /\ ~Pending) => ENABLED TypeCommand(<<"A">>))
    /\ [][\A i \in 1..Len(sending) :
            SendFailed(i) =>
                /\ error' # Null
                /\ invoked' = invoked
                /\ Len(sending') = Len(sending) - 1
                /\ UNCHANGED <<commandHistory, historyIndex, logs, command>>]_vars

\* the one command submitted has failed: the error is set, nothing is in
\* flight, the echo line and the history entry are there, the input empty
C30_Witness ==
    /\ error # Null
    /\ sending = <<>>
    /\ invoked = 1 /\ submitted = 1
    /\ logs = <<Echo(<<"A">>)>>
    /\ commandHistory = <<<<"A">>>>
    /\ historyIndex = -1 /\ command = <<>>

----------------------------------------------------------------------------
\* Properties of the interpreter

RECURSIVE ConcatText(_)
ConcatText(segs) ==
    IF segs = <<>> THEN <<>> ELSE Head(segs).text \o ConcatText(Tail(segs))

\* C20 (as claimed): for a line that holds at least one SGR marker, the
\* texts of the segments, concatenated in order, are the line with every
\* marker removed; also when the line is nothing but markers.
C20_SegmentsSpellStrippedLine ==
    (parsed /\ StripSgr(rawLine) # rawLine)
        => ConcatText(segments) = StripSgr(rawLine)

\* the places of the line where a well-formed marker starts; no two overlap,
\* since a marker holds its only ESC at its front
Markers(s) == {i \in 1..Len(s) : SgrLengthAt(From(s, i)) > 0}

InMarker(s, q) == \E i \in Markers(s) : i <= q /\ q < i + SgrLengthAt(From(s, i))

\* the places where a run of text outside the markers starts
TextRunStarts(s) ==
    {q \in 1..Len(s) : ~InMarker(s, q) /\ (q = 1 \/ InMarker(s, q - 1))}

\* the codes of the marker that starts at i
MarkerCodes(s, i) == Codes(SubSeq(s, i + 2, i + SgrLengthAt(From(s, i)) - 2))

\* the text run that directly follows the marker at i, by its number among
\* the runs of the line; 0 if a marker or the end of the line follows
RunAfter(s, i) ==
    LET p == i + SgrLengthAt(From(s, i))
    IN IF p \in TextRunStarts(s)
       THEN Cardinality({q \in TextRunStarts(s) : q <= p}) ELSE 0

IsDefault(seg) == seg = Segment(seg.text, DefaultStyle)

Red == [DefaultStyle EXCEPT !.classes = <<ColorClass(31)>>]

\* ESC[31m a ESC[0m a, the line "\x1b[31merror\x1b[0m ok" with one character
\* for each text
ResetExampleLine ==
    <<"ESC", "[", "3", "1", "m", "a", "ESC", "[", "0", "m", "a">>

\* C21 (as claimed): the text run that follows a marker containing code 0,
\* or a marker with an empty code list, is a segment with default style.
C21_ZeroInMarkerResets ==
    parsed =>
        \A i \in Markers(rawLine) :
            (0 \in Range(MarkerCodes(rawLine, i)) /\ RunAfter(rawLine, i) > 0)
                => IsDefault(segments[RunAfter(rawLine, i)])

\* C21 (amended): the text run that follows a marker whose last code is 0
\* (an empty code counts as 0, an empty code list as the one code 0) is a
\* segment with default style, whatever styles and colours were set before;
\* ESC[31m a ESC[0m a yields a red segment and a default one.
C21_LastCodeZeroResets ==
    parsed =>
        /\ \A i \in Markers(rawLine) :
              LET codes == MarkerCodes(rawLine, i)
              IN (codes[Len(codes)] = 0 /\ RunAfter(rawLine, i) > 0)
                    => IsDefault(segments[RunAfter(rawLine, i)])
        /\ rawLine = ResetExampleLine
              => segments = <<Segment(<<"a">>, Red), Segment(<<"a">>, DefaultStyle)>>

\* text after a reset that follows bold and a background, and the example
C21_Witness ==
    /\ parsed
    /\ \/ rawLine = <<"ESC", "[", "1", ";", ";", "4", "2", "m", "a",
                      "ESC", "[", "m", "a">>
       \/ rawLine = ResetExampleLine

\* the places where ESC and [ are followed by codes and then by no m
Malformed(s) ==
    {i \in 1..(Len(s) - 1) :
        /\ s[i] = "ESC" /\ s[i + 1] = "["
        /\ LET e == i + 2 + Len(CodeRun(From(s, i + 2)))
           IN e > Len(s) \/ s[e] # "m"}

\* the k-th run of text of the line: where it starts, its text, and the
\* style the well-formed markers before it add up to
RunStart(s, k) ==
    CHOOSE q \in TextRunStarts(s) :
        Cardinality({r \in TextRunStarts(s) : r <= q}) = k

RunText(s, q) ==
    LET later == {i \in Markers(s) : i > q}
    IN SubSeq(s, q, IF later = {} THEN Len(s)
                    ELSE (CHOOSE i \in later : \A j \in later : i <= j) - 1)

RECURSIVE StyleBefore(_, _)
StyleBefore(s, q) ==
    LET earlier == {i \in Markers(s) : i < q}
        last == CHOOSE i \in earlier : \A j \in earlier : j <= i
    IN IF earlier = {} THEN DefaultStyle
       ELSE ApplyCodes(StyleBefore(s, last), MarkerCodes(s, last))

Count(s, ch) == Cardinality({i \in 1..Len(s) : s[i] = ch})

\* C22: a marker that lacks its m stays in the segments as text, escape
\* character included, inside the run of text around it; the segments of
\* such a line are its runs of text outside the well-formed markers, each
\* with the style the well-formed markers before it add up to.
C22_MalformedMarkerIsText ==
    (parsed /\ Malformed(rawLine) # {}) =>
        /\ Count(ConcatText(segments), "ESC") = Cardinality(Malformed(rawLine))
        /\ Len(segments) = Cardinality(TextRunStarts(rawLine))
        /\ \A k \in 1..Len(segments) :
              LET q == RunStart(rawLine, k)
              IN segments[k] = Segment(RunText(rawLine, q), StyleBefore(rawLine, q))

\* a marker without its m between a colour and a reset, then text
C22_Witness ==
    /\ parsed
    /\ rawLine = <<"ESC", "[", "3", "1", "m", "ESC", "[", "3", "1",
                   "ESC", "[", "0", "m", "a">>
    /\ segments = <<Segment(<<"ESC", "[", "3", "1">>, Red),
                    Segment(<<"a">>, DefaultStyle)>>

\* the codes of the well-formed markers before place q, in order
RECURSIVE CodesBefore(_, _)
CodesBefore(s, q) ==
    LET earlier == {i \in Markers(s) : i < q}
        last == CHOOSE i \in earlier : \A j \in earlier : j <= i
    IN IF earlier = {} THEN <<>>
       ELSE CodesBefore(s, last) \o MarkerCodes(s, last)

\* the classes of the last code of each kind among codes: none, one or two
LastColours(codes) ==
    {ColorClass(codes[i]) : i \in
        {i \in 1..Len(codes) :
            \/ codes[i] \in Foreground
                  /\ \A j \in (i + 1)..Len(codes) : codes[j] \notin Foreground
            \/ codes[i] \in Background
                  /\ \A j \in (i + 1)..Len(codes) : codes[j] \notin Background}}

\* C31: a segment has at most one foreground and at most one background
\* class; on a line whose markers never reset, its foreground is that of
\* the last foreground code before it, its background that of the last
\* background code before it, whatever codes stand between them, it is bold
\* exactly if a code 1 came before it, and a code outside the table
\* changes nothing.
C31_OneColourOfEachKind ==
    parsed =>
        \A k \in 1..Len(segments) :
            LET seg == segments[k]
                codes == IF TextRunStarts(rawLine) = {} THEN <<>>
                         ELSE CodesBefore(rawLine, RunStart(rawLine, k))
            IN /\ Cardinality({i \in 1..Len(seg.classes) : seg.classes[i][1] = "text"}) <= 1
               /\ Cardinality({i \in 1..Len(seg.classes) : seg.classes[i][1] = "bg"}) <= 1
               /\ Range(seg.classes) = LastColours(codes)
               /\ seg.bold = (1 \in Range(codes))
               /\ ~seg.dim /\ ~seg.italic /\ ~seg.underline

\* red, then bold with a background, then bright green: the text is bold and
\* carries the background and the second foreground only; or red, an
\* unknown code, bright green: the text carries the second foreground
C31_Witness ==
    /\ parsed
    /\ Len(segments) = 1
    /\ \/ /\ rawLine = <<"ESC", "[", "3", "1", "m", "ESC", "[", "1", ";", "4", "5", "m",
                          "ESC", "[", "9", "2", "m", "a">>
          /\ segments[1].classes = <<ColorClass(45), ColorClass(92)>>
          /\ segments[1].bold
       \/ /\ rawLine = <<"ESC", "[", "3", "1", "m", "ESC", "[", "5", "m",
                          "ESC", "[", "9", "2", "m", "a">>
          /\ segments[1].classes = <<ColorClass(92)>>

----------------------------------------------------------------------------
\* Properties of the severity classifier and of the line hint

\* the rules of the classifier, on the line in lower case
ErrorRule(lower) ==
    \/ TestWord(lower, TextError)
    \/ TestBracketed(lower, TextError)
    \/ Occurs(lower, TextException) # {}

WarningRule(lower) ==
    \/ TestWord(lower, TextWarn) \/ TestWord(lower, TextWarning)
    \/ TestBracketed(lower, TextWarn) \/ TestBracketed(lower, TextWarning)

DebugRule(lower) ==
    TestWord(lower, TextDebug) \/ TestBracketed(lower, TextDebug)

\* C32: a line without escape markers is rendered as one segment labelled
\* by the first rule that matches, in the order error, warning, debug,
\* none, whatever the case of its letters: ERROR and Exceptions label the
\* line error even beside Warn or debug, and Warn without an error word
\* labels it warning even beside debug
C32_SeverityPriority ==
    (parsed /\ ~hasAnsi(rawLine)) =>
        LET lower == toLowerCase(rawLine)
            label == segments[1].classes
        IN /\ Len(segments) = 1
           /\ segments[1].text = rawLine
           /\ label = IF ErrorRule(lower) THEN <<"text-red-400">>
                      ELSE IF WarningRule(lower) THEN <<"text-yellow-400">>
                      ELSE IF DebugRule(lower) THEN <<"text-zinc-500">>
                      ELSE <<>>
           /\ TestWord(rawLine, <<"E", "R", "R", "O", "R">>)
                  => label = <<"text-red-400">>
           /\ Occurs(rawLine, <<"E", "x", "c", "e", "p", "t", "i", "o", "n">>) # {}
                  => label = <<"text-red-400">>
           /\ (TestWord(rawLine, <<"W", "a", "r", "n">>) /\ ~ErrorRule(lower))
                  => label = <<"text-yellow-400">>
           /\ (/\ Occurs(rawLine, <<"[", "D", "e", "b", "u", "g", "]">>) # {}
               /\ ~ErrorRule(lower) /\ ~WarningRule(lower))
                  => label = <<"text-zinc-500">>

\* C32 witness: the line "Warn ERROR debug" has been rendered, labelled
\* error
C32_Witness ==
    /\ parsed
    /\ rawLine = <<"W", "a", "r", "n", " ", "E", "R", "R", "O", "R", " ",
                   "d", "e", "b", "u", "g">>
    /\ segments = <<[Segment(rawLine, DefaultStyle) EXCEPT
                        !.classes = <<"text-red-400">>]>>

\* C33: a rendered line has the hint of a command echo exactly when it
\* begins with "> ", with or without escape markers and whatever the
\* classifier says of it; any other line without escape markers has the
\* hint of its severity, and any other line with them has none
C33_CommandEchoHint ==
    parsed =>
        /\ isCommand(rawLine) <=> lineClass = CommandClass
        /\ ~isCommand(rawLine) =>
               lineClass = IF hasAnsi(rawLine) THEN ""
                           ELSE getLogLevelStyle(rawLine).lineClass

\* C33 witness: the line "> error" has been rendered with the hint of a
\* command echo
C33_Witness ==
    /\ parsed
    /\ rawLine = <<">", " ", "e", "r", "r", "o", "r">>
    /\ lineClass = CommandClass
    /\ getLogLevelStyle(rawLine) = ErrorStyle

----------------------------------------------------------------------------
\* Properties over the console's whole life

\* C34 (as claimed): in every state the detected URL and the detected code
\* are both present or both absent.
C34_UrlAndCodeTogether == (oauthUrl = Null) <=> (oauthCode = Null)

\* C36: in every state where the handler and the effects of its render
\* have completed, the userScrolled marker is true exactly when autoScroll
\* is false.
C36_PinnedFlagsAgree == ~Pending => (userScrolledRef <=> ~autoScroll)

\* C36 witness: the reader has scrolled away from the bottom of a running
\* session's lines and the effects have run: both flags say unpinned
C36_Witness ==
    /\ ~Pending
    /\ status = "running"
    /\ logs # <<>>
    /\ userScrolledRef /\ ~autoScroll
    /\ scrollTop < MaxScrollTop(logs)

\* C37: in every state the history cursor is at least -1 and at most the
\* length of the history less one, so the place a recall reads,
\* length - 1 - cursor, is a place of the history whenever the cursor is
\* not -1.
C37_CursorInBounds ==
    /\ historyIndex >= -1
    /\ historyIndex <= Len(commandHistory) - 1
    /\ historyIndex # -1 => (Len(commandHistory) - historyIndex) \in 1..Len(commandHistory)

\* C37 witness: after submits the cursor has been stepped back to the
\* oldest of at least two commands, which is the text of the input
C37_Witness ==
    /\ Len(commandHistory) >= 2
    /\ historyIndex = Len(commandHistory) - 1
    /\ command = commandHistory[1]
    /\ upRun >= Len(commandHistory)

----------------------------------------------------------------------------
\* Properties of the store's loading flag

\* a startServer or a stopServer call has made its first state update and
\* not yet its last
OperationInFlight ==
    \E k \in TaskKinds : k.op \in {"startServer", "stopServer"} /\ inflight[k] > 0

\* C35 (as claimed): isLoading is true for as long as a startServer or a
\* stopServer call is in flight, whatever fetchServers call completes
\* meanwhile.
C35_LoadingWhileInFlight == OperationInFlight => isLoading

----------------------------------------------------------------------------
\* Properties of Restart

\* C38: a restart calls startServer only in a step taken when its own
\* stopServer has returned, and that call is its first and only one: while
\* its stopServer awaits stop_server, detach_server or list_servers it has
\* called startServer no time, and afterwards at most once.
C38_RestartStartsAfterStop ==
    /\ [](\A r \in 1..MaxRestarts :
            /\ restartStarts[r] <= 1
            /\ restartPhase[r] \in StopAwaits \cup {"idle", "timer"}
                   => restartStarts[r] = 0
            /\ restartPhase[r] = "started" => restartStarts[r] = 1)
    /\ [][\A r \in 1..MaxRestarts :
            restartStarts'[r] # restartStarts[r]
                => /\ restartPhase[r] = "timer"
                   /\ restartStarts[r] = 0 /\ restartStarts'[r] = 1
                   /\ inflight'[Task("startServer", "listen", 0)]
                          = inflight[Task("startServer", "listen", 0)] + 1]_vars

\* C38 witness: the first restart has stopped the server and called
\* startServer once, the line of the restart is in the buffer, and a
\* second restart is still stopping
C38_Witness ==
    /\ restartPhase[1] = "started" /\ restartStarts[1] = 1
    /\ restartPhase[2] \in StopAwaits /\ restartStarts[2] = 0
    /\ logs = <<RestartingLine>>

----------------------------------------------------------------------------
\* Properties of the emptied buffer

\* C39 (as claimed): every step that empties a buffer that held lines,
\* by Clear, Start, Update, Reinstall or the effect of the
\* running-to-stopped transition, leaves the scroll state Pinned.
C39_EmptiedBufferIsPinned ==
    [][(logs # <<>> /\ logs' = <<>>) => (autoScroll' /\ ~userScrolledRef')]_vars

----------------------------------------------------------------------------
\* Properties of the seeding

\* C13 (as claimed): once the fetch has completed, the lines the
\* subscription delivered are in the buffer, in order, after the seeded
\* history, whatever the order in which the fetch and the events completed.
C13_NoStreamedLineLost ==
    fetch = "done" =>
        \E k \in 0..Len(logs) : SubSeq(logs, k + 1, Len(logs)) = delivered

\* a step in which the listener is called with the first event in flight
Delivery == events # <<>> /\ events' = Tail(events)

\* C27: the buffer never holds a line of another server; the listener
\* called with an event of another server leaves the buffer as it is, and
\* called with an event of the attached server appends its line.
C27_OnlyOwnSessionLines ==
    /\ [](\A i \in 1..Len(logs) : logs[i] # ForeignEvent.line)
    /\ [][Delivery =>
            IF Head(events).server_id = AttachedId
            THEN logs' = Append(logs, Head(events).line)
            ELSE logs' = logs]_vars

\* the listener has appended a line of the attached server and is about to
\* be called with an event of another server, one of its own behind it
C27_Witness ==
    /\ ~Pending
    /\ delivered # <<>> /\ logs = delivered
    /\ Len(events) = 2
    /\ events[1] = ForeignEvent
    /\ events[2].server_id = AttachedId

\* C28: after the fetch of the history has failed the status is as it
\* was, the buffer holds no history but exactly the lines the listener
\* appended, the listener is registered or its registration can still
\* resolve, and every event of the attached server it is called with
\* appends its line.
C28_FetchFailureIsNotFatal ==
    /\ [](fetch = "failed" =>
            /\ status = "running"
            /\ logs = delivered
            /\ subscription = "registered"
                  \/ (subscription = "listening" /\ ENABLED SeedListenResolved))
    /\ [][(fetch = "failed" /\ Delivery /\ Head(events).server_id = AttachedId)
            => logs' = Append(logs, Head(events).line)]_vars

\* the fetch failed while the server had a history; the listener is
\* registered and has appended every line written since
C28_Witness ==
    /\ fetch = "failed"
    /\ HistoryLine \in Range(serverLog)
    /\ subscription = "registered"
    /\ Len(delivered) = MaxWrites
    /\ logs = delivered

----------------------------------------------------------------------------
\* Properties of the subscriptions

Subscriptions(owner) == {l \in listeners : l.owner = owner}

DetachInFlight ==
    \E k \in TaskKinds :
        k.op \in {"stopServer", "deleteServer"} /\ k.pc = "detach_server" /\ inflight[k] > 0

\* C6 (as claimed): the store holds at most one active line subscription,
\* and so does the console view.
C6_AtMostOneSubscription ==
    /\ Cardinality(Subscriptions("store")) <= 1
    /\ Cardinality(Subscriptions("view")) <= 1

\* C7 (as claimed): once the view's cleanup has run no subscription of the
\* view is active, and once detachFromServer has completed, with no attach
\* asked for since, no subscription of the store is active.
C7_NoSubscriptionAfterDetach ==
    /\ ~mounted => Subscriptions("view") = {}
    /\ (lastStoreRequest = "detach" /\ ~DetachInFlight) => Subscriptions("store") = {}

====
